---- MODULE Spec2Model ----
(***************************************************************************)
(* Model of the serial port lifecycle of sdeor/serialport (Windows         *)
(* backend, ComPort): the Port values (is_open, handle, builder), the OS   *)
(* handle table and the per-device control block and timeouts.             *)
(***************************************************************************)
EXTENDS Integers, Sequences, FiniteSets, TLC

\* ports:  the Port values (ComPort) the caller holds
\* os:     the OS handle table and each device's DCB and COMMTIMEOUTS
\* last:   the operation performed last, its result and the OS calls it made
\* ops:    number of operations performed
\* cloned: whether a try_clone() has succeeded so far
VARIABLES ports, os, last, ops, cloned

vars == <<ports, os, last, ops, cloned>>

(***************************************************************************)
(* Bounds of the exploration.                                              *)
(***************************************************************************)
MaxPorts == 2
MaxHandles == 3
MaxOps == 4

PortIds == 1..MaxPorts
Handles == 1..MaxHandles

(***************************************************************************)
(* Values of the Windows API the code uses.                                *)
(***************************************************************************)
INVALID_HANDLE_VALUE == -1

NOPARITY == 0
ODDPARITY == 1
EVENPARITY == 2
MARKPARITY == 3
SPACEPARITY == 4

ONESTOPBIT == 0
ONE5STOPBITS == 1
TWOSTOPBITS == 2

RTS_CONTROL_DISABLE == 0
RTS_CONTROL_HANDSHAKE == 2

\* A DWORD count of milliseconds n is held as [k, r] with n = 1000 * k + r,
\* 0 <= r < 1000, so that 2^32 - 1 is representable.
Ms(k, r) == [k |-> k, r |-> r]
MAXDWORD == Ms(4294967, 295)
MsLeq(a, b) == a.k < b.k \/ (a.k = b.k /\ a.r <= b.r)
MsMin(a, b) == IF MsLeq(a, b) THEN a ELSE b
MsPred(a) == IF a.r > 0 THEN Ms(a.k, a.r - 1) ELSE Ms(a.k - 1, 999)

\* std::time::Duration: whole seconds and sub-second nanoseconds.
Duration(secs, nanos) == [secs |-> secs, nanos |-> nanos]
DurationZERO == Duration(0, 0)
AsMillis(d) == Ms(d.secs, d.nanos \div 1000000)

(***************************************************************************)
(* Inputs of the exploration.                                              *)
(***************************************************************************)
PORT_PREFIX == "\\\\.\\"
Paths == {"", "COM1", "COM9"}
Devices == {PORT_PREFIX \o "COM1"}
BaudRates == {9600, 115200}
DataBitsValues == {"Eight", "Seven"}
ParityValues == {"None", "Even"}
StopBitsValues == {"One", "Two"}
FlowControlValues == {"None", "Hardware"}
Timeouts == {DurationZERO, Duration(2, 0)}
BufLens == {0, 1}

(***************************************************************************)
(* Results of operations: an io::ErrorKind, and the OS call whose          *)
(* last_os_error() is being returned ("none" for errors the code makes).   *)
(***************************************************************************)
Ok == [kind |-> "Ok", api |-> "none"]
Err(kind) == [kind |-> kind, api |-> "none"]
OsErr(kind, api) == [kind |-> kind, api |-> api]
Call(api, h, ok) == [api |-> api, h |-> h, ok |-> ok]

(***************************************************************************)
(* SerialPortBuilder: the stored configuration.                            *)
(***************************************************************************)
SerialPortBuilderNew ==
  [path |-> "", baud_rate |-> 9600, data_bits |-> "Eight",
   flow_control |-> "None", parity |-> "None", stop_bits |-> "One",
   timeout |-> DurationZERO]

NoPort == [exists |-> FALSE]
ComPort(is_open, handle, builder) ==
  [exists |-> TRUE, is_open |-> is_open, handle |-> handle, builder |-> builder]

(***************************************************************************)
(* The OS side: the handle table, and each device's DCB and COMMTIMEOUTS.  *)
(***************************************************************************)
PowerOnDCB ==
  [BaudRate |-> 1200, ByteSize |-> 7, StopBits |-> TWOSTOPBITS,
   Parity |-> EVENPARITY, fOutxCtsFlow |-> 0,
   fRtsControl |-> 1, fOutX |-> 0, fInX |-> 0,
   fDtrControl |-> 1]

PowerOnTimeouts ==
  [ReadIntervalTimeout |-> Ms(0, 0), ReadTotalTimeoutMultiplier |-> Ms(0, 0),
   ReadTotalTimeoutConstant |-> Ms(0, 0),
   WriteTotalTimeoutMultiplier |-> Ms(0, 0),
   WriteTotalTimeoutConstant |-> Ms(0, 0)]

NoDevice == "none"

\* Handles some Port value still names: a fresh handle never aliases them.
Referenced == {ports[p].handle : p \in {q \in PortIds : ports[q].exists}}
FreeHandles == (Handles \ os.live) \ Referenced
FreshHandle ==
  IF FreeHandles = {} THEN INVALID_HANDLE_VALUE
  ELSE CHOOSE h \in FreeHandles : \A g \in FreeHandles : h <= g

\* "\\.\" is prepended unless already there.
PrefixPort(path) ==
  IF Len(path) >= 4 /\ SubSeq(path, 1, 4) = PORT_PREFIX THEN path
  ELSE PORT_PREFIX \o path

\* CreateFileW called with a share mode that lets a second handle be opened
\* on a device that is already held.
CreateFileW_Shared(o, name, osOk) ==
  LET h == FreshHandle IN
  IF name \notin Devices
  THEN [os |-> o, handle |-> INVALID_HANDLE_VALUE, kind |-> "NotFound"]
  ELSE IF ~osOk \/ h = INVALID_HANDLE_VALUE
  THEN [os |-> o, handle |-> INVALID_HANDLE_VALUE, kind |-> "PermissionDenied"]
  ELSE [os |-> [o EXCEPT !.live = @ \cup {h}, !.dev[h] = name],
        handle |-> h, kind |-> "Ok"]

\* CreateFileW(name, GENERIC_READ | GENERIC_WRITE, 0 (no sharing), ...,
\* OPEN_EXISTING, ...): fails when the device is absent, when a handle to it
\* is still open, or when the OS refuses (osOk = FALSE).
CreateFileW(o, name, osOk) ==
  LET h == FreshHandle IN
  IF name \notin Devices
  THEN [os |-> o, handle |-> INVALID_HANDLE_VALUE, kind |-> "NotFound"]
  ELSE IF (\E x \in o.live : o.dev[x] = name) \/ ~osOk
          \/ h = INVALID_HANDLE_VALUE
  THEN [os |-> o, handle |-> INVALID_HANDLE_VALUE, kind |-> "PermissionDenied"]
  ELSE [os |-> [o EXCEPT !.live = @ \cup {h}, !.dev[h] = name],
        handle |-> h, kind |-> "Ok"]

\* CloseHandle(h): releases a live handle unless the OS refuses.
CloseHandle(o, h, osOk) ==
  IF h \in o.live /\ osOk
  THEN [os |-> [o EXCEPT !.live = @ \ {h}, !.dev[h] = NoDevice], ok |-> TRUE]
  ELSE [os |-> o, ok |-> FALSE]

\* GetCommState(h, &dcb): the device's control block.
GetCommState(o, h, osOk) ==
  IF h \in o.live /\ o.dev[h] \in Devices /\ osOk
  THEN [dcb |-> o.dcb[o.dev[h]], ok |-> TRUE]
  ELSE [dcb |-> PowerOnDCB, ok |-> FALSE]

\* SetCommState(h, &dcb).
SetCommState(o, h, dcb, osOk) ==
  IF h \in o.live /\ o.dev[h] \in Devices /\ osOk
  THEN [os |-> [o EXCEPT !.dcb[o.dev[h]] = dcb], ok |-> TRUE]
  ELSE [os |-> o, ok |-> FALSE]

\* SetCommTimeouts(h, &timeouts).
SetCommTimeouts(o, h, timeouts, osOk) ==
  IF h \in o.live /\ o.dev[h] \in Devices /\ osOk
  THEN [os |-> [o EXCEPT !.timeouts[o.dev[h]] = timeouts], ok |-> TRUE]
  ELSE [os |-> o, ok |-> FALSE]

\* DuplicateHandle(process, h, process, &new, 0, 0, DUPLICATE_SAME_ACCESS).
\* The value of INVALID_HANDLE_VALUE is also the pseudo handle of the current
\* process, which the OS duplicates into a handle to the process.
PROCESS == "process"
DuplicateHandle(o, h, osOk) ==
  LET n == FreshHandle
      target == IF h = INVALID_HANDLE_VALUE THEN PROCESS ELSE o.dev[h] IN
  IF (h \in o.live \/ h = INVALID_HANDLE_VALUE) /\ osOk
     /\ n # INVALID_HANDLE_VALUE
  THEN [os |-> [o EXCEPT !.live = @ \cup {n}, !.dev[n] = target],
        handle |-> n, ok |-> TRUE]
  ELSE [os |-> o, handle |-> INVALID_HANDLE_VALUE, ok |-> FALSE]

\* ReadFile / WriteFile(h, buf, len, &n, NULL): n <= len bytes transferred.
TransferFile(o, h, len, n, osOk) ==
  IF h \in o.live /\ o.dev[h] \in Devices /\ osOk /\ n <= len
  THEN [n |-> n, ok |-> TRUE]
  ELSE [n |-> 0, ok |-> FALSE]

\* FlushFileBuffers(h).
FlushFileBuffers(o, h, osOk) == h \in o.live /\ o.dev[h] \in Devices /\ osOk

(***************************************************************************)
(* Configuration translator (WindowsDCB).                                  *)
(***************************************************************************)
DcbBaudRate(dcb, baud_rate) == [dcb EXCEPT !.BaudRate = baud_rate]

DcbDataBits(dcb, data_bits) ==
  [dcb EXCEPT !.ByteSize =
     CASE data_bits = "Five" -> 5
       [] data_bits = "Six" -> 6
       [] data_bits = "Seven" -> 7
       [] data_bits = "Eight" -> 8]

\* stop_bits() writing the code of two stop bits for one and a half.
DcbStopBits_OnePointFiveAsTwo(dcb, stop_bits) ==
  [dcb EXCEPT !.StopBits =
     CASE stop_bits = "One" -> ONESTOPBIT
       [] stop_bits = "OnePointFive" -> TWOSTOPBITS
       [] stop_bits = "Two" -> TWOSTOPBITS]

DcbStopBits(dcb, stop_bits) ==
  [dcb EXCEPT !.StopBits =
     CASE stop_bits = "One" -> ONESTOPBIT
       [] stop_bits = "OnePointFive" -> ONE5STOPBITS
       [] stop_bits = "Two" -> TWOSTOPBITS]

DcbParity(dcb, parity) ==
  [dcb EXCEPT !.Parity =
     CASE parity = "None" -> NOPARITY
       [] parity = "Odd" -> ODDPARITY
       [] parity = "Even" -> EVENPARITY
       [] parity = "Mark" -> MARKPARITY
       [] parity = "Space" -> SPACEPARITY]

\* flow_control(Software) leaving the hardware flags as they were.
DcbFlowControl_SoftwareKeepsHardware(dcb, flow_control) ==
  CASE flow_control = "None" ->
         [dcb EXCEPT !.fOutxCtsFlow = 0, !.fRtsControl = RTS_CONTROL_DISABLE,
                     !.fOutX = 0, !.fInX = 0]
    [] flow_control = "Software" ->
         [dcb EXCEPT !.fOutX = 1, !.fInX = 1]
    [] flow_control = "Hardware" ->
         [dcb EXCEPT !.fOutxCtsFlow = 1, !.fRtsControl = RTS_CONTROL_HANDSHAKE,
                     !.fOutX = 0, !.fInX = 0]

\* flow_control(None) leaving the XON/XOFF flags as they were.
DcbFlowControl_NoneKeepsSoftware(dcb, flow_control) ==
  CASE flow_control = "None" ->
         [dcb EXCEPT !.fOutxCtsFlow = 0, !.fRtsControl = RTS_CONTROL_DISABLE]
    [] flow_control = "Software" ->
         [dcb EXCEPT !.fOutxCtsFlow = 0, !.fRtsControl = RTS_CONTROL_DISABLE,
                     !.fOutX = 1, !.fInX = 1]
    [] flow_control = "Hardware" ->
         [dcb EXCEPT !.fOutxCtsFlow = 1, !.fRtsControl = RTS_CONTROL_HANDSHAKE,
                     !.fOutX = 0, !.fInX = 0]

DcbFlowControl(dcb, flow_control) ==
  CASE flow_control = "None" ->
         [dcb EXCEPT !.fOutxCtsFlow = 0, !.fRtsControl = RTS_CONTROL_DISABLE,
                     !.fOutX = 0, !.fInX = 0]
    [] flow_control = "Software" ->
         [dcb EXCEPT !.fOutxCtsFlow = 0, !.fRtsControl = RTS_CONTROL_DISABLE,
                     !.fOutX = 1, !.fInX = 1]
    [] flow_control = "Hardware" ->
         [dcb EXCEPT !.fOutxCtsFlow = 1, !.fRtsControl = RTS_CONTROL_HANDSHAKE,
                     !.fOutX = 0, !.fInX = 0]

\* update() leaving the baud rate of the block it was given.
DcbUpdate_SkipsBaudRate(dcb, builder) ==
  DcbFlowControl(
    DcbParity(
      DcbStopBits(DcbDataBits(dcb, builder.data_bits), builder.stop_bits),
      builder.parity),
    builder.flow_control)

DcbUpdate(dcb, builder) ==
  DcbFlowControl(
    DcbParity(
      DcbStopBits(
        DcbDataBits(DcbBaudRate(dcb, builder.baud_rate), builder.data_bits),
        builder.stop_bits),
      builder.parity),
    builder.flow_control)

\* The COMMTIMEOUTS reconfigure() builds from the stored timeout.
\* reconfigure() casting as_millis() to DWORD without the minimum: the
\* value modulo 2^32 (2^32 ms = 4294967 s 296 ms).
CommTimeouts_Wraps(timeout) ==
  LET m == AsMillis(timeout)
      milliseconds ==
        IF MsLeq(Ms(4294967, 296), m)
        THEN (IF m.r >= 296 THEN Ms(m.k - 4294967, m.r - 296)
              ELSE Ms(m.k - 4294968, m.r + 704))
        ELSE m IN
  [ReadIntervalTimeout |-> MAXDWORD,
   ReadTotalTimeoutMultiplier |-> Ms(0, 0),
   ReadTotalTimeoutConstant |-> milliseconds,
   WriteTotalTimeoutMultiplier |-> Ms(0, 0),
   WriteTotalTimeoutConstant |-> milliseconds]

CommTimeouts(timeout) ==
  LET milliseconds == MsMin(AsMillis(timeout), MsPred(MAXDWORD)) IN
  [ReadIntervalTimeout |-> MAXDWORD,
   ReadTotalTimeoutMultiplier |-> Ms(0, 0),
   ReadTotalTimeoutConstant |-> milliseconds,
   WriteTotalTimeoutMultiplier |-> Ms(0, 0),
   WriteTotalTimeoutConstant |-> milliseconds]

(***************************************************************************)
(* ComPort methods, as functions of the Port value s, the OS state o and   *)
(* the outcomes oc the OS gives to the calls made.  Each yields the Port,  *)
(* the OS state, the result and the OS calls made, in order.               *)
(***************************************************************************)
\* The OS may refuse any call.  An operation stops at the first call that
\* fails, except that a failed SetCommState is followed by CloseHandle, so
\* each operation has these distinguishable outcomes.
AllOk ==
  [create |-> TRUE, get |-> TRUE, set |-> TRUE, tmo |-> TRUE, close |-> TRUE,
   dup |-> TRUE, io |-> TRUE]
Failing(f) == [AllOk EXCEPT ![f] = FALSE]
ReconfigureOutcomes ==
  {AllOk, Failing("get"), Failing("set"), Failing("tmo"),
   [AllOk EXCEPT !.set = FALSE, !.close = FALSE]}
OpenOutcomes == {AllOk, Failing("create"), Failing("get"), Failing("set"),
                 Failing("tmo")}
CloseOutcomes == {AllOk, Failing("close")}
SetPathOutcomes == OpenOutcomes \cup {Failing("close")}
CloneOutcomes == {AllOk, Failing("dup")}
IoOutcomes == {AllOk, Failing("io")}

Ret(s, o, res, calls) == [port |-> s, os |-> o, res |-> res, calls |-> calls]

\* close() without the early return on a port that is not open.
Close_NoOpenCheck(s, o, oc) ==
  IF s.handle # INVALID_HANDLE_VALUE
  THEN LET c == CloseHandle(o, s.handle, oc.close) IN
       IF ~c.ok
       THEN Ret(s, o, OsErr("Other", "CloseHandle"),
                <<Call("CloseHandle", s.handle, FALSE)>>)
       ELSE Ret([s EXCEPT !.handle = INVALID_HANDLE_VALUE, !.is_open = FALSE],
                c.os, Ok, <<Call("CloseHandle", s.handle, TRUE)>>)
  ELSE Ret([s EXCEPT !.is_open = FALSE], o, Ok, <<>>)

\* close() forgetting to clear is_open after the release.
Close_KeepsOpenFlag(s, o, oc) ==
  IF ~s.is_open THEN Ret(s, o, Ok, <<>>)
  ELSE IF s.handle # INVALID_HANDLE_VALUE
  THEN LET c == CloseHandle(o, s.handle, oc.close) IN
       IF ~c.ok
       THEN Ret(s, o, OsErr("Other", "CloseHandle"),
                <<Call("CloseHandle", s.handle, FALSE)>>)
       ELSE Ret([s EXCEPT !.handle = INVALID_HANDLE_VALUE],
                c.os, Ok, <<Call("CloseHandle", s.handle, TRUE)>>)
  ELSE Ret(s, o, Ok, <<>>)

\* close() forgetting to reset the handle field after the release.
Close_KeepsHandle(s, o, oc) ==
  IF ~s.is_open THEN Ret(s, o, Ok, <<>>)
  ELSE IF s.handle # INVALID_HANDLE_VALUE
  THEN LET c == CloseHandle(o, s.handle, oc.close) IN
       IF ~c.ok
       THEN Ret(s, o, OsErr("Other", "CloseHandle"),
                <<Call("CloseHandle", s.handle, FALSE)>>)
       ELSE Ret([s EXCEPT !.is_open = FALSE],
                c.os, Ok, <<Call("CloseHandle", s.handle, TRUE)>>)
  ELSE Ret([s EXCEPT !.is_open = FALSE], o, Ok, <<>>)

Close(s, o, oc) ==
  IF ~s.is_open THEN Ret(s, o, Ok, <<>>)
  ELSE IF s.handle # INVALID_HANDLE_VALUE
  THEN LET c == CloseHandle(o, s.handle, oc.close) IN
       IF ~c.ok
       THEN Ret(s, o, OsErr("Other", "CloseHandle"),
                <<Call("CloseHandle", s.handle, FALSE)>>)
       ELSE Ret([s EXCEPT !.handle = INVALID_HANDLE_VALUE, !.is_open = FALSE],
                c.os, Ok, <<Call("CloseHandle", s.handle, TRUE)>>)
  ELSE Ret([s EXCEPT !.is_open = FALSE], o, Ok, <<>>)

\* reconfigure() building the control block from a zeroed DCB instead of
\* the one GetCommState returned.
Reconfigure_FromZeroedBlock(s, o, oc) ==
  IF s.handle = INVALID_HANDLE_VALUE THEN Ret(s, o, Err("NotConnected"), <<>>)
  ELSE
  LET g == GetCommState(o, s.handle, oc.get)
      zeroed == [f \in DOMAIN PowerOnDCB |-> 0] IN
  IF ~g.ok
  THEN Ret(s, o, OsErr("Other", "GetCommState"),
           <<Call("GetCommState", s.handle, FALSE)>>)
  ELSE
  LET st == SetCommState(o, s.handle, DcbUpdate(zeroed, s.builder), oc.set) IN
  IF ~st.ok
  THEN LET c == Close(s, o, oc) IN
       Ret(c.port, c.os, OsErr("Other", "SetCommState"),
           <<Call("GetCommState", s.handle, TRUE),
             Call("SetCommState", s.handle, FALSE)>> \o c.calls)
  ELSE
  LET t == SetCommTimeouts(st.os, s.handle, CommTimeouts(s.builder.timeout),
                           oc.tmo) IN
  Ret(s, t.os,
      IF t.ok THEN Ok ELSE OsErr("Other", "SetCommTimeouts"),
      <<Call("GetCommState", s.handle, TRUE),
        Call("SetCommState", s.handle, TRUE),
        Call("SetCommTimeouts", s.handle, t.ok)>>)

\* reconfigure() dropping the result of SetCommTimeouts.
Reconfigure_IgnoresTimeoutsFailure(s, o, oc) ==
  IF s.handle = INVALID_HANDLE_VALUE THEN Ret(s, o, Err("NotConnected"), <<>>)
  ELSE
  LET g == GetCommState(o, s.handle, oc.get) IN
  IF ~g.ok
  THEN Ret(s, o, OsErr("Other", "GetCommState"),
           <<Call("GetCommState", s.handle, FALSE)>>)
  ELSE
  LET st == SetCommState(o, s.handle, DcbUpdate(g.dcb, s.builder), oc.set) IN
  IF ~st.ok
  THEN LET c == Close(s, o, oc) IN
       Ret(c.port, c.os, OsErr("Other", "SetCommState"),
           <<Call("GetCommState", s.handle, TRUE),
             Call("SetCommState", s.handle, FALSE)>> \o c.calls)
  ELSE
  LET t == SetCommTimeouts(st.os, s.handle, CommTimeouts(s.builder.timeout),
                           oc.tmo) IN
  Ret(s, t.os, Ok,
      <<Call("GetCommState", s.handle, TRUE),
        Call("SetCommState", s.handle, TRUE),
        Call("SetCommTimeouts", s.handle, t.ok)>>)

Reconfigure(s, o, oc) ==
  IF s.handle = INVALID_HANDLE_VALUE THEN Ret(s, o, Err("NotConnected"), <<>>)
  ELSE
  LET g == GetCommState(o, s.handle, oc.get) IN
  IF ~g.ok
  THEN Ret(s, o, OsErr("Other", "GetCommState"),
           <<Call("GetCommState", s.handle, FALSE)>>)
  ELSE
  LET st == SetCommState(o, s.handle, DcbUpdate(g.dcb, s.builder), oc.set) IN
  IF ~st.ok
  THEN LET c == Close(s, o, oc) IN
       Ret(c.port, c.os, OsErr("Other", "SetCommState"),
           <<Call("GetCommState", s.handle, TRUE),
             Call("SetCommState", s.handle, FALSE)>> \o c.calls)
  ELSE
  LET t == SetCommTimeouts(st.os, s.handle, CommTimeouts(s.builder.timeout),
                           oc.tmo) IN
  Ret(s, t.os,
      IF t.ok THEN Ok ELSE OsErr("Other", "SetCommTimeouts"),
      <<Call("GetCommState", s.handle, TRUE),
        Call("SetCommState", s.handle, TRUE),
        Call("SetCommTimeouts", s.handle, t.ok)>>)

\* open() without the check that the port is already open.
Open_NoAlreadyOpenCheck(s, o, oc) ==
  IF s.builder.path = "" THEN Ret(s, o, Err("InvalidInput"), <<>>)
  ELSE
  LET cf == CreateFileW(o, PrefixPort(s.builder.path), oc.create) IN
  IF cf.handle = INVALID_HANDLE_VALUE
  THEN Ret(s, o, OsErr(cf.kind, "CreateFileW"),
           <<Call("CreateFileW", INVALID_HANDLE_VALUE, FALSE)>>)
  ELSE
  LET s1 == [s EXCEPT !.handle = cf.handle]
      r == Reconfigure(s1, cf.os, oc)
      calls == <<Call("CreateFileW", cf.handle, TRUE)>> \o r.calls IN
  IF r.res # Ok THEN Ret(r.port, r.os, r.res, calls)
  ELSE Ret([r.port EXCEPT !.is_open = TRUE], r.os, Ok, calls)

Open(s, o, oc) ==
  IF s.builder.path = "" THEN Ret(s, o, Err("InvalidInput"), <<>>)
  ELSE IF s.is_open THEN Ret(s, o, Err("AlreadyExists"), <<>>)
  ELSE
  LET cf == CreateFileW(o, PrefixPort(s.builder.path), oc.create) IN
  IF cf.handle = INVALID_HANDLE_VALUE
  THEN Ret(s, o, OsErr(cf.kind, "CreateFileW"),
           <<Call("CreateFileW", INVALID_HANDLE_VALUE, FALSE)>>)
  ELSE
  LET s1 == [s EXCEPT !.handle = cf.handle]
      r == Reconfigure(s1, cf.os, oc)
      calls == <<Call("CreateFileW", cf.handle, TRUE)>> \o r.calls IN
  IF r.res # Ok THEN Ret(r.port, r.os, r.res, calls)
  ELSE Ret([r.port EXCEPT !.is_open = TRUE], r.os, Ok, calls)

\* try_clone() storing the source's handle in the clone instead of the
\* duplicate.
TryCloneNative_SharedHandle(s, o, oc) ==
  LET d == DuplicateHandle(o, s.handle, oc.dup) IN
  IF ~d.ok
  THEN [clone |-> NoPort, os |-> o, res |-> OsErr("Other", "DuplicateHandle"),
        calls |-> <<Call("DuplicateHandle", s.handle, FALSE)>>]
  ELSE [clone |-> ComPort(s.is_open, s.handle, s.builder), os |-> d.os,
        res |-> Ok, calls |-> <<Call("DuplicateHandle", s.handle, TRUE)>>]

\* try_clone() refusing a port that is not open.
TryCloneNative_RefusesClosed(s, o, oc) ==
  LET d == DuplicateHandle(o, s.handle, oc.dup) IN
  IF ~s.is_open
  THEN [clone |-> NoPort, os |-> o, res |-> Err("NotConnected"),
        calls |-> <<>>]
  ELSE IF ~d.ok
  THEN [clone |-> NoPort, os |-> o, res |-> OsErr("Other", "DuplicateHandle"),
        calls |-> <<Call("DuplicateHandle", s.handle, FALSE)>>]
  ELSE [clone |-> ComPort(s.is_open, d.handle, s.builder), os |-> d.os,
        res |-> Ok, calls |-> <<Call("DuplicateHandle", s.handle, TRUE)>>]

\* The clone is returned beside the (unchanged) source.
TryCloneNative(s, o, oc) ==
  LET d == DuplicateHandle(o, s.handle, oc.dup) IN
  IF ~d.ok
  THEN [clone |-> NoPort, os |-> o, res |-> OsErr("Other", "DuplicateHandle"),
        calls |-> <<Call("DuplicateHandle", s.handle, FALSE)>>]
  ELSE [clone |-> ComPort(s.is_open, d.handle, s.builder), os |-> d.os,
        res |-> Ok, calls |-> <<Call("DuplicateHandle", s.handle, TRUE)>>]

\* A setter putting the previous value back when reconfigure() fails.
SetField_RollsBack(s, o, b, oc) ==
  LET s1 == [s EXCEPT !.builder = b]
      r == Reconfigure(s1, o, oc) IN
  IF ~s.is_open THEN Ret(s1, o, Ok, <<>>)
  ELSE IF r.res = Ok THEN r
  ELSE Ret([r.port EXCEPT !.builder = s.builder], r.os, r.res, r.calls)

\* A setter calling reconfigure() whether or not the port is open.
SetField_ReconfiguresAlways(s, o, b, oc) ==
  LET s1 == [s EXCEPT !.builder = b] IN
  Reconfigure(s1, o, oc)

\* set_baud_rate .. set_timeout: store the value b holds, then reconfigure
\* when open.
SetField(s, o, b, oc) ==
  LET s1 == [s EXCEPT !.builder = b] IN
  IF s.is_open THEN Reconfigure(s1, o, oc) ELSE Ret(s1, o, Ok, <<>>)

SetRawPath(s, path) == [s EXCEPT !.builder.path = path]

\* set_path() storing the identifier under the live handle, without the
\* close and the reopen.
SetPathFn_KeepsOpen(s, o, path, oc) ==
  Ret(SetRawPath(s, path), o, Ok, <<>>)

\* set_path() putting the previous identifier back when the reopen fails.
SetPathFn_RollsBack(s, o, path, oc) ==
  LET was_open == s.is_open
      c == IF was_open THEN Close(s, o, oc) ELSE Ret(s, o, Ok, <<>>) IN
  IF c.res # Ok THEN c
  ELSE
  LET s1 == SetRawPath(c.port, path) IN
  IF was_open
  THEN LET r == Open(s1, c.os, oc) IN
       Ret(IF r.res = Ok THEN r.port ELSE SetRawPath(r.port, s.builder.path),
           r.os, r.res, c.calls \o r.calls)
  ELSE Ret(s1, c.os, Ok, c.calls)

\* set_path() opening the port whether or not it was open before.
SetPathFn_AlwaysReopens(s, o, path, oc) ==
  LET was_open == s.is_open
      c == IF was_open THEN Close(s, o, oc) ELSE Ret(s, o, Ok, <<>>) IN
  IF c.res # Ok THEN c
  ELSE
  LET s1 == SetRawPath(c.port, path)
      r == Open(s1, c.os, oc) IN
  Ret(r.port, r.os, r.res, c.calls \o r.calls)

SetPathFn(s, o, path, oc) ==
  LET was_open == s.is_open
      c == IF was_open THEN Close(s, o, oc) ELSE Ret(s, o, Ok, <<>>) IN
  IF c.res # Ok THEN c
  ELSE
  LET s1 == SetRawPath(c.port, path) IN
  IF was_open
  THEN LET r == Open(s1, c.os, oc) IN
       Ret(r.port, r.os, r.res, c.calls \o r.calls)
  ELSE Ret(s1, c.os, Ok, c.calls)

(***************************************************************************)
(* The operations a caller performs.                                       *)
(***************************************************************************)
\* Every operation is one step of the caller; runs are explored up to MaxOps
\* operations.
CanStep == ops < MaxOps
Step == ops' = ops + 1 /\ UNCHANGED cloned

Last(op, p, r) ==
  [op |-> op, port |-> p, res |-> r.res, calls |-> r.calls, n |-> 0]

\* new() discarding the result of open() and returning the Port anyway.
Build_IgnoresOpenError(p, path, baud_rate, oc) ==
  /\ CanStep
  /\ ~ports[p].exists
  /\ LET b == [SerialPortBuilderNew EXCEPT !.path = path,
                 !.baud_rate = baud_rate]
         s == ComPort(FALSE, INVALID_HANDLE_VALUE, b)
         r == IF path # "" THEN Open(s, os, oc) ELSE Ret(s, os, Ok, <<>>) IN
     /\ ports' = [ports EXCEPT ![p] = r.port]
     /\ os' = r.os
     /\ last' = [op |-> "build", port |-> p, res |-> Ok, calls |-> r.calls,
                 n |-> 0]
  /\ Step

\* SerialPortBuilder::build -> ComPort::new: the new Port exists only when
\* new() returns Ok; on Err the value is dropped inside new().
Build(p, path, baud_rate, oc) ==
  /\ CanStep
  /\ ~ports[p].exists
  /\ LET b == [SerialPortBuilderNew EXCEPT !.path = path,
                 !.baud_rate = baud_rate]
         s == ComPort(FALSE, INVALID_HANDLE_VALUE, b)
         r == IF path # "" THEN Open(s, os, oc) ELSE Ret(s, os, Ok, <<>>)
         d == Close(r.port, r.os, oc) IN
     IF r.res = Ok
     THEN /\ ports' = [ports EXCEPT ![p] = r.port]
          /\ os' = r.os
          /\ last' = Last("build", p, r)
     ELSE /\ ports' = ports
          /\ os' = d.os
          /\ last' = [op |-> "build", port |-> p, res |-> r.res,
                      calls |-> r.calls \o d.calls, n |-> 0]
  /\ Step

OpenOp(p, oc) ==
  /\ CanStep
  /\ ports[p].exists
  /\ LET r == Open(ports[p], os, oc) IN
     /\ ports' = [ports EXCEPT ![p] = r.port]
     /\ os' = r.os
     /\ last' = Last("open", p, r)
  /\ Step

CloseOp(p, oc) ==
  /\ CanStep
  /\ ports[p].exists
  /\ LET r == Close(ports[p], os, oc) IN
     /\ ports' = [ports EXCEPT ![p] = r.port]
     /\ os' = r.os
     /\ last' = Last("close", p, r)
  /\ Step

\* impl Drop: let _ = self.close(); then the value is gone.
Drop(p, oc) ==
  /\ CanStep
  /\ ports[p].exists
  /\ LET r == Close(ports[p], os, oc) IN
     /\ ports' = [ports EXCEPT ![p] = NoPort]
     /\ os' = r.os
     /\ last' = [op |-> "drop", port |-> p, res |-> Ok, calls |-> r.calls,
                 n |-> 0]
  /\ Step

TryClone(p, q, oc) ==
  /\ CanStep
  /\ ports[p].exists
  /\ ~ports[q].exists
  /\ LET r == TryCloneNative(ports[p], os, oc) IN
     /\ ports' = [ports EXCEPT ![q] = r.clone]
     /\ os' = r.os
     /\ last' = [op |-> "try_clone", port |-> p, res |-> r.res,
                 calls |-> r.calls, n |-> q]
     /\ cloned' = (cloned \/ r.res = Ok)
  /\ ops' = ops + 1

Setter(op, p, b, oc) ==
  /\ CanStep
  /\ ports[p].exists
  /\ LET r == SetField(ports[p], os, b, oc) IN
     /\ ports' = [ports EXCEPT ![p] = r.port]
     /\ os' = r.os
     /\ last' = Last(op, p, r)
  /\ Step

SetBaudRate(p, baud_rate, oc) ==
  /\ ports[p].exists
  /\ Setter("set_baud_rate", p,
            [ports[p].builder EXCEPT !.baud_rate = baud_rate], oc)

SetDataBits(p, data_bits, oc) ==
  /\ ports[p].exists
  /\ Setter("set_data_bits", p,
            [ports[p].builder EXCEPT !.data_bits = data_bits], oc)

SetFlowControl(p, flow_control, oc) ==
  /\ ports[p].exists
  /\ Setter("set_flow_control", p,
            [ports[p].builder EXCEPT !.flow_control = flow_control], oc)

SetParity(p, parity, oc) ==
  /\ ports[p].exists
  /\ Setter("set_parity", p,
            [ports[p].builder EXCEPT !.parity = parity], oc)

SetStopBits(p, stop_bits, oc) ==
  /\ ports[p].exists
  /\ Setter("set_stop_bits", p,
            [ports[p].builder EXCEPT !.stop_bits = stop_bits], oc)

SetTimeout(p, timeout, oc) ==
  /\ ports[p].exists
  /\ Setter("set_timeout", p,
            [ports[p].builder EXCEPT !.timeout = timeout], oc)

SetPath(p, path, oc) ==
  /\ CanStep
  /\ ports[p].exists
  /\ LET r == SetPathFn(ports[p], os, path, oc) IN
     /\ ports' = [ports EXCEPT ![p] = r.port]
     /\ os' = r.os
     /\ last' = Last("set_path", p, r)
  /\ Step

\* read() without the early return on a port that is not open.
Read_NoOpenCheck(p, len, n, oc) ==
  /\ CanStep
  /\ ports[p].exists
  /\ n <= len
  /\ LET s == ports[p]
         t == TransferFile(os, s.handle, len, n, oc.io) IN
     last' = [op |-> "read", port |-> p,
              res |-> IF ~t.ok THEN OsErr("Other", "ReadFile")
                      ELSE IF t.n = 0 THEN Err("TimedOut") ELSE Ok,
              calls |-> <<Call("ReadFile", s.handle, t.ok)>>,
              n |-> IF t.ok THEN t.n ELSE 0]
  /\ UNCHANGED <<ports, os>>
  /\ Step

\* read() returning the byte count as it is, zero included.
Read_ReturnsZero(p, len, n, oc) ==
  /\ CanStep
  /\ ports[p].exists
  /\ n <= len
  /\ LET s == ports[p]
         t == TransferFile(os, s.handle, len, n, oc.io) IN
     last' = IF ~s.is_open
             THEN [op |-> "read", port |-> p, res |-> Err("NotConnected"),
                   calls |-> <<>>, n |-> 0]
             ELSE [op |-> "read", port |-> p,
                   res |-> IF ~t.ok THEN OsErr("Other", "ReadFile") ELSE Ok,
                   calls |-> <<Call("ReadFile", s.handle, t.ok)>>,
                   n |-> IF t.ok THEN t.n ELSE 0]
  /\ UNCHANGED <<ports, os>>
  /\ Step

\* impl Read: a transfer of zero bytes is reported as TimedOut.
Read(p, len, n, oc) ==
  /\ CanStep
  /\ ports[p].exists
  /\ n <= len
  /\ LET s == ports[p]
         t == TransferFile(os, s.handle, len, n, oc.io) IN
     last' = IF ~s.is_open
             THEN [op |-> "read", port |-> p, res |-> Err("NotConnected"),
                   calls |-> <<>>, n |-> 0]
             ELSE [op |-> "read", port |-> p,
                   res |-> IF ~t.ok THEN OsErr("Other", "ReadFile")
                           ELSE IF t.n = 0 THEN Err("TimedOut") ELSE Ok,
                   calls |-> <<Call("ReadFile", s.handle, t.ok)>>,
                   n |-> IF t.ok THEN t.n ELSE 0]
  /\ UNCHANGED <<ports, os>>
  /\ Step

Write(p, len, n, oc) ==
  /\ CanStep
  /\ ports[p].exists
  /\ n <= len
  /\ LET s == ports[p]
         t == TransferFile(os, s.handle, len, n, oc.io) IN
     last' = IF ~s.is_open
             THEN [op |-> "write", port |-> p, res |-> Err("NotConnected"),
                   calls |-> <<>>, n |-> 0]
             ELSE [op |-> "write", port |-> p,
                   res |-> IF ~t.ok THEN OsErr("Other", "WriteFile") ELSE Ok,
                   calls |-> <<Call("WriteFile", s.handle, t.ok)>>,
                   n |-> IF t.ok THEN t.n ELSE 0]
  /\ UNCHANGED <<ports, os>>
  /\ Step

Flush(p, oc) ==
  /\ CanStep
  /\ ports[p].exists
  /\ LET s == ports[p]
         f == FlushFileBuffers(os, s.handle, oc.io) IN
     last' = IF ~s.is_open
             THEN [op |-> "flush", port |-> p, res |-> Err("NotConnected"),
                   calls |-> <<>>, n |-> 0]
             ELSE [op |-> "flush", port |-> p,
                   res |-> IF f THEN Ok ELSE OsErr("Other", "FlushFileBuffers"),
                   calls |-> <<Call("FlushFileBuffers", s.handle, f)>>,
                   n |-> 0]
  /\ UNCHANGED <<ports, os>>
  /\ Step

Init ==
  /\ ports = [p \in PortIds |-> NoPort]
  /\ os = [live |-> {}, dev |-> [h \in Handles |-> NoDevice],
           dcb |-> [d \in Devices |-> PowerOnDCB],
           timeouts |-> [d \in Devices |-> PowerOnTimeouts]]
  /\ last = [op |-> "init", port |-> 0, res |-> Ok, calls |-> <<>>, n |-> 0]
  /\ ops = 0
  /\ cloned = FALSE

Next ==
  \/ \E p \in PortIds, path \in Paths, b \in BaudRates, oc \in OpenOutcomes :
        Build(p, path, b, oc)
  \/ \E p \in PortIds, oc \in OpenOutcomes : OpenOp(p, oc)
  \/ \E p \in PortIds, oc \in CloseOutcomes : CloseOp(p, oc)
  \/ \E p \in PortIds, oc \in CloseOutcomes : Drop(p, oc)
  \/ \E p, q \in PortIds, oc \in CloneOutcomes : TryClone(p, q, oc)
  \/ \E p \in PortIds, v \in BaudRates, oc \in ReconfigureOutcomes :
        SetBaudRate(p, v, oc)
  \/ \E p \in PortIds, v \in DataBitsValues, oc \in ReconfigureOutcomes :
        SetDataBits(p, v, oc)
  \/ \E p \in PortIds, v \in FlowControlValues, oc \in ReconfigureOutcomes :
        SetFlowControl(p, v, oc)
  \/ \E p \in PortIds, v \in ParityValues, oc \in ReconfigureOutcomes :
        SetParity(p, v, oc)
  \/ \E p \in PortIds, v \in StopBitsValues, oc \in ReconfigureOutcomes :
        SetStopBits(p, v, oc)
  \/ \E p \in PortIds, v \in Timeouts, oc \in ReconfigureOutcomes :
        SetTimeout(p, v, oc)
  \/ \E p \in PortIds, path \in Paths, oc \in SetPathOutcomes :
        SetPath(p, path, oc)
  \/ \E p \in PortIds, len \in BufLens, oc \in IoOutcomes :
        \E n \in 0..len : Read(p, len, n, oc)
  \/ \E p \in PortIds, len \in BufLens, oc \in IoOutcomes :
        \E n \in 0..len : Write(p, len, n, oc)
  \/ \E p \in PortIds, oc \in IoOutcomes : Flush(p, oc)

Spec == Init /\ [][Next]_vars

(***************************************************************************)
(* Reading the device back: the getters, bytes_to_read/write and clear.    *)
(* None of them tests is_open; each passes the handle field to the OS.     *)
(***************************************************************************)
\* PurgeComm(h, flags) and ClearCommError(h, &errors, &comstat): they
\* succeed on a handle that is open on a serial device.
PurgeComm(o, h, osOk) == h \in o.live /\ o.dev[h] \in Devices /\ osOk
ClearCommError(o, h, osOk) == h \in o.live /\ o.dev[h] \in Devices /\ osOk

NoValue == "none"
Got(res, val, calls) == [res |-> res, val |-> val, calls |-> calls]

\* What a getter does with the outcome g of GetCommState: decoded is the
\* result, with its value, of decoding the block g returned.
ReadBack(s, g, decoded) ==
  IF ~g.ok
  THEN Got(OsErr("Other", "GetCommState"), NoValue,
           <<Call("GetCommState", s.handle, FALSE)>>)
  ELSE Got(decoded.res, decoded.val,
           <<Call("GetCommState", s.handle, TRUE)>>)

Decoded(val) == [res |-> Ok, val |-> val]
InvalidData == [res |-> Err("InvalidData"), val |-> NoValue]

DecodeBaudRate(dcb) == Decoded(dcb.BaudRate)

\* data_bits() reporting Eight for a byte size it does not know.
DecodeDataBits_DefaultsToEight(dcb) ==
  CASE dcb.ByteSize = 5 -> Decoded("Five")
    [] dcb.ByteSize = 6 -> Decoded("Six")
    [] dcb.ByteSize = 7 -> Decoded("Seven")
    [] OTHER -> Decoded("Eight")

DecodeDataBits(dcb) ==
  CASE dcb.ByteSize = 5 -> Decoded("Five")
    [] dcb.ByteSize = 6 -> Decoded("Six")
    [] dcb.ByteSize = 7 -> Decoded("Seven")
    [] dcb.ByteSize = 8 -> Decoded("Eight")
    [] OTHER -> InvalidData

\* flow_control() testing the XON/XOFF flags before the hardware flags.
DecodeFlowControl_SoftwareFirst(dcb) ==
  IF dcb.fOutX # 0 \/ dcb.fInX # 0 THEN Decoded("Software")
  ELSE IF dcb.fOutxCtsFlow # 0 \/ dcb.fRtsControl # RTS_CONTROL_DISABLE
  THEN Decoded("Hardware")
  ELSE Decoded("None")

DecodeFlowControl(dcb) ==
  IF dcb.fOutxCtsFlow # 0 \/ dcb.fRtsControl # RTS_CONTROL_DISABLE
  THEN Decoded("Hardware")
  ELSE IF dcb.fOutX # 0 \/ dcb.fInX # 0 THEN Decoded("Software")
  ELSE Decoded("None")

DecodeParity(dcb) ==
  CASE dcb.Parity = NOPARITY -> Decoded("None")
    [] dcb.Parity = ODDPARITY -> Decoded("Odd")
    [] dcb.Parity = EVENPARITY -> Decoded("Even")
    [] dcb.Parity = MARKPARITY -> Decoded("Mark")
    [] dcb.Parity = SPACEPARITY -> Decoded("Space")
    [] OTHER -> InvalidData

DecodeStopBits(dcb) ==
  CASE dcb.StopBits = ONESTOPBIT -> Decoded("One")
    [] dcb.StopBits = ONE5STOPBITS -> Decoded("OnePointFive")
    [] dcb.StopBits = TWOSTOPBITS -> Decoded("Two")
    [] OTHER -> InvalidData

GetBaudRate(s, o, oc) ==
  LET g == GetCommState(o, s.handle, oc.get) IN
  ReadBack(s, g, DecodeBaudRate(g.dcb))

GetDataBits(s, o, oc) ==
  LET g == GetCommState(o, s.handle, oc.get) IN
  ReadBack(s, g, DecodeDataBits(g.dcb))

GetFlowControl(s, o, oc) ==
  LET g == GetCommState(o, s.handle, oc.get) IN
  ReadBack(s, g, DecodeFlowControl(g.dcb))

GetParity(s, o, oc) ==
  LET g == GetCommState(o, s.handle, oc.get) IN
  ReadBack(s, g, DecodeParity(g.dcb))

GetStopBits(s, o, oc) ==
  LET g == GetCommState(o, s.handle, oc.get) IN
  ReadBack(s, g, DecodeStopBits(g.dcb))

\* bytes_to_read() / bytes_to_write(): the count n the OS reports.
BytesQueued(s, o, n, oc) ==
  LET ok == ClearCommError(o, s.handle, oc.io) IN
  Got(IF ok THEN Ok ELSE OsErr("Other", "ClearCommError"),
      IF ok THEN n ELSE NoValue,
      <<Call("ClearCommError", s.handle, ok)>>)

ClearBuffers == {"Input", "Output", "All"}
\* clear() purging both directions when asked for the input only.
BufferFlags_InputPurgesAll(buffer_to_clear) ==
  CASE buffer_to_clear = "Input" ->
         {"PURGE_RXABORT", "PURGE_RXCLEAR", "PURGE_TXABORT", "PURGE_TXCLEAR"}
    [] buffer_to_clear = "Output" -> {"PURGE_TXABORT", "PURGE_TXCLEAR"}
    [] buffer_to_clear = "All" ->
         {"PURGE_RXABORT", "PURGE_RXCLEAR", "PURGE_TXABORT", "PURGE_TXCLEAR"}

BufferFlags(buffer_to_clear) ==
  CASE buffer_to_clear = "Input" -> {"PURGE_RXABORT", "PURGE_RXCLEAR"}
    [] buffer_to_clear = "Output" -> {"PURGE_TXABORT", "PURGE_TXCLEAR"}
    [] buffer_to_clear = "All" ->
         {"PURGE_RXABORT", "PURGE_RXCLEAR", "PURGE_TXABORT", "PURGE_TXCLEAR"}

\* clear(): the value recorded is the set of PURGE_ flags passed.
ClearFn(s, o, buffer_to_clear, oc) ==
  LET ok == PurgeComm(o, s.handle, oc.io) IN
  Got(IF ok THEN Ok ELSE OsErr("Other", "PurgeComm"),
      BufferFlags(buffer_to_clear),
      <<Call("PurgeComm", s.handle, ok)>>)

\* An operation taking &self: it changes neither the Port nor, in what is
\* modelled of it, the OS.
Observe(op, p, g) ==
  /\ CanStep
  /\ ports[p].exists
  /\ last' = [op |-> op, port |-> p, res |-> g.res, calls |-> g.calls,
              n |-> 0, val |-> g.val]
  /\ UNCHANGED <<ports, os>>
  /\ Step

BaudRateOp(p, oc) ==
  ports[p].exists /\ Observe("baud_rate", p, GetBaudRate(ports[p], os, oc))
DataBitsOp(p, oc) ==
  ports[p].exists /\ Observe("data_bits", p, GetDataBits(ports[p], os, oc))
FlowControlOp(p, oc) ==
  /\ ports[p].exists
  /\ Observe("flow_control", p, GetFlowControl(ports[p], os, oc))
ParityOp(p, oc) ==
  ports[p].exists /\ Observe("parity", p, GetParity(ports[p], os, oc))
StopBitsOp(p, oc) ==
  ports[p].exists /\ Observe("stop_bits", p, GetStopBits(ports[p], os, oc))
BytesToRead(p, n, oc) ==
  /\ ports[p].exists
  /\ Observe("bytes_to_read", p, BytesQueued(ports[p], os, n, oc))
BytesToWrite(p, n, oc) ==
  /\ ports[p].exists
  /\ Observe("bytes_to_write", p, BytesQueued(ports[p], os, n, oc))
Clear(p, buffer_to_clear, oc) ==
  /\ ports[p].exists
  /\ Observe("clear", p, ClearFn(ports[p], os, buffer_to_clear, oc))

\* path() and timeout(): the stored value, with no OS call.
GetPath(s) == Got(Ok, s.builder.path, <<>>)
GetTimeout(s) == Got(Ok, s.builder.timeout, <<>>)

PathOp(p) ==
  ports[p].exists /\ Observe("path", p, GetPath(ports[p]))
TimeoutOp(p) ==
  ports[p].exists /\ Observe("timeout", p, GetTimeout(ports[p]))

(***************************************************************************)
(* The translator on one Port, over the whole domain of every field:       *)
(* the setters of an Open port and the getters that read the device back.  *)
(***************************************************************************)
AllDataBits == {"Five", "Six", "Seven", "Eight"}
AllParity == {"None", "Odd", "Even", "Mark", "Space"}
AllStopBits == {"One", "OnePointFive", "Two"}
AllFlowControl == {"None", "Software", "Hardware"}
\* Zero, one nanosecond, just under and exactly one millisecond, two
\* seconds, and 2^32 - 2, 2^32 - 1 and 4294968000 milliseconds.
EdgeTimeouts ==
  {DurationZERO, Duration(0, 1), Duration(0, 999999), Duration(0, 1000000),
   Duration(2, 0), Duration(4294967, 294000000),
   Duration(4294967, 295000000), Duration(4294968, 0)}
TranslateOutcomes == {AllOk, Failing("get")}

NextTranslate ==
  \/ Build(1, "COM1", 9600, AllOk)
  \/ \E v \in AllDataBits, oc \in TranslateOutcomes : SetDataBits(1, v, oc)
  \/ \E v \in AllFlowControl, oc \in TranslateOutcomes :
        SetFlowControl(1, v, oc)
  \/ \E v \in AllParity, oc \in TranslateOutcomes : SetParity(1, v, oc)
  \/ \E v \in AllStopBits, oc \in TranslateOutcomes : SetStopBits(1, v, oc)
  \/ \E v \in EdgeTimeouts, oc \in TranslateOutcomes : SetTimeout(1, v, oc)
  \/ \E oc \in TranslateOutcomes : BaudRateOp(1, oc)
  \/ \E oc \in TranslateOutcomes : DataBitsOp(1, oc)
  \/ \E oc \in TranslateOutcomes : FlowControlOp(1, oc)
  \/ \E oc \in TranslateOutcomes : ParityOp(1, oc)
  \/ \E oc \in TranslateOutcomes : StopBitsOp(1, oc)

SpecTranslate == Init /\ [][NextTranslate]_vars

(***************************************************************************)
(* A device found in any state: before the program first opens it, its     *)
(* control block holds whatever the driver or an earlier user left there.  *)
(***************************************************************************)
RawByteSizes == 4..9
RawParities == 0..5
RawStopBits == 0..3
RawRtsControls == 0..3
RawDCBs ==
  {[PowerOnDCB EXCEPT !.ByteSize = v] : v \in RawByteSizes}
    \cup {[PowerOnDCB EXCEPT !.Parity = v] : v \in RawParities}
    \cup {[PowerOnDCB EXCEPT !.StopBits = v] : v \in RawStopBits}
    \cup {[PowerOnDCB EXCEPT !.fOutxCtsFlow = c, !.fRtsControl = r,
                             !.fOutX = x, !.fInX = y] :
            c \in 0..1, r \in RawRtsControls, x \in 0..1, y \in 0..1}

InitRaw ==
  /\ ports = [p \in PortIds |-> NoPort]
  /\ \E dcb \in RawDCBs :
       os = [live |-> {}, dev |-> [h \in Handles |-> NoDevice],
             dcb |-> [d \in Devices |-> dcb],
             timeouts |-> [d \in Devices |-> PowerOnTimeouts]]
  /\ last = [op |-> "init", port |-> 0, res |-> Ok, calls |-> <<>>, n |-> 0]
  /\ ops = 0
  /\ cloned = FALSE

RawOpenOutcomes == {AllOk, Failing("get")}

NextRaw ==
  \/ \E path \in {"", "COM1"} : Build(1, path, 9600, AllOk)
  \/ \E v \in AllFlowControl : SetFlowControl(1, v, AllOk)
  \/ SetPath(1, "COM1", AllOk)
  \/ \E oc \in RawOpenOutcomes : OpenOp(1, oc)
  \/ BaudRateOp(1, AllOk)
  \/ DataBitsOp(1, AllOk)
  \/ FlowControlOp(1, AllOk)
  \/ ParityOp(1, AllOk)
  \/ StopBitsOp(1, AllOk)
  \/ \E n \in 0..1 : BytesToRead(1, n, AllOk)
  \/ \E n \in 0..1 : BytesToWrite(1, n, AllOk)
  \/ \E b \in ClearBuffers : Clear(1, b, AllOk)

SpecRaw == InitRaw /\ [][NextRaw]_vars

(***************************************************************************)
(* Every operation of the trait together: the lifecycle, the setters and   *)
(* the I/O of Next, and the getters, the queue counts and clear.           *)
(***************************************************************************)
GetterOutcomes == {AllOk, Failing("get")}

NextAll ==
  \/ Next
  \/ \E p \in PortIds, oc \in GetterOutcomes : BaudRateOp(p, oc)
  \/ \E p \in PortIds, oc \in GetterOutcomes : DataBitsOp(p, oc)
  \/ \E p \in PortIds, oc \in GetterOutcomes : FlowControlOp(p, oc)
  \/ \E p \in PortIds, oc \in GetterOutcomes : ParityOp(p, oc)
  \/ \E p \in PortIds, oc \in GetterOutcomes : StopBitsOp(p, oc)
  \/ \E p \in PortIds : PathOp(p)
  \/ \E p \in PortIds : TimeoutOp(p)
  \/ \E p \in PortIds, oc \in IoOutcomes :
        \E n \in 0..1 : BytesToRead(p, n, oc)
  \/ \E p \in PortIds, oc \in IoOutcomes :
        \E n \in 0..1 : BytesToWrite(p, n, oc)
  \/ \E p \in PortIds, oc \in IoOutcomes :
        \E b \in ClearBuffers : Clear(p, b, oc)

SpecAll == Init /\ [][NextAll]_vars

(***************************************************************************)
(* Read timing: ReadFile against the timeouts the device holds.            *)
(***************************************************************************)
\* The longest a ReadFile call that receives nothing waits before it
\* returns: reconfigure() writes ReadIntervalTimeout = MAXDWORD and a zero
\* multiplier, so the call returns once ReadTotalTimeoutConstant
\* milliseconds have elapsed, and at once when that constant is zero.
ReadFileWait(o, h) == o.timeouts[o.dev[h]].ReadTotalTimeoutConstant

NextTiming ==
  \/ Build(1, "COM1", 9600, AllOk)
  \/ \E v \in EdgeTimeouts, oc \in ReconfigureOutcomes : SetTimeout(1, v, oc)
  \/ \E len \in BufLens, oc \in IoOutcomes :
        \E n \in 0..len : Read(1, len, n, oc)

SpecTiming == Init /\ [][NextTiming]_vars

(***************************************************************************)
(* Properties.                                                             *)
(***************************************************************************)
SetterOps == {"set_baud_rate", "set_data_bits", "set_flow_control",
              "set_parity", "set_stop_bits", "set_timeout"}
LastPort == ports[last.port]
Acted(opname) == last.op = opname /\ last.port \in PortIds /\ LastPort.exists
Applying == {"GetCommState", "SetCommState", "SetCommTimeouts"}
ReleaseRefused ==
  \E i \in DOMAIN last.calls :
    last.calls[i].api = "CloseHandle" /\ ~last.calls[i].ok
\* The OS state of the device behind Port p is what reconfigure() writes for
\* p's stored configuration.
Applied(p) ==
  LET d == os.dev[ports[p].handle] IN
  /\ os.dcb[d] = DcbUpdate(os.dcb[d], ports[p].builder)
  /\ os.timeouts[d] = CommTimeouts(ports[p].builder.timeout)

\* C1 (as claimed): when open() has acquired the handle (CreateFileW
\* succeeded) and applying the configuration or the timeout then fails, on
\* return the handle has been released, the port is Closed and names no
\* handle, and the error of the failing call is returned.
C1_FailedOpenReleasesHandle ==
  (/\ Acted("open")
   /\ last.res # Ok
   /\ last.calls # <<>>
   /\ last.calls[1].api = "CreateFileW"
   /\ last.calls[1].ok)
  => /\ ~LastPort.is_open
     /\ LastPort.handle = INVALID_HANDLE_VALUE
     /\ last.calls[1].h \notin os.live
     /\ last.res.api \in Applying

\* C2 (as claimed): every Port that reports is_open() == false holds the
\* invalid sentinel as its handle.
C2_ClosedPortOwnsNoHandle ==
  \A p \in PortIds :
    (ports[p].exists /\ ~ports[p].is_open)
      => ports[p].handle = INVALID_HANDLE_VALUE

\* C3 (as claimed): a field setter that returns an error (it fails only on
\* an Open port, while re-applying) leaves the port Closed with its handle
\* released; the case of the OS refusing the release itself is left out.
C3_FailedSetterClosesPort ==
  (/\ last.op \in SetterOps
   /\ last.port \in PortIds
   /\ LastPort.exists
   /\ last.res # Ok
   /\ ~ReleaseRefused)
  => /\ ~LastPort.is_open
     /\ LastPort.handle = INVALID_HANDLE_VALUE

\* C4 (as claimed): no handle leak: every handle the OS still holds open is
\* the handle of a Port value that still exists.
C4_NoHandleLeak ==
  \A h \in os.live :
    \E p \in PortIds : ports[p].exists /\ ports[p].handle = h

\* C5: no double release: every handle an operation passes to CloseHandle
\* is open at the OS when the operation starts, so a handle already
\* released is never released again.
C5_NoDoubleRelease ==
  [][\A i \in DOMAIN last'.calls :
       last'.calls[i].api = "CloseHandle" => last'.calls[i].h \in os.live]_vars

\* C5 witness: a failed reconfiguration has fail-safe closed the port, the
\* OS released the handle, and the port no longer names it.
C5_Witness ==
  /\ last.op \in SetterOps
  /\ last.port \in PortIds
  /\ LastPort.exists
  /\ \E i \in DOMAIN last.calls :
       /\ last.calls[i].api = "CloseHandle"
       /\ last.calls[i].ok
       /\ last.calls[i].h \notin os.live
  /\ LastPort.handle = INVALID_HANDLE_VALUE

\* C6: every Port that reports is_open() == true (clones included) holds a
\* handle that is open at the OS, on a serial device.
C6_OpenPortOwnsLiveHandle ==
  \A p \in PortIds :
    (ports[p].exists /\ ports[p].is_open)
      => /\ ports[p].handle \in os.live
         /\ os.dev[ports[p].handle] \in Devices

\* C6 witness: try_clone() of an Open port has returned an Open clone while
\* the source is still Open.
C6_Witness ==
  /\ Acted("try_clone")
  /\ last.res = Ok
  /\ ports[last.n].exists
  /\ ports[last.n].is_open
  /\ LastPort.is_open
  /\ ports[last.n].handle # LastPort.handle

\* C7 (as claimed): while no clone has been made, the device behind every
\* Open port holds the translation of that port's stored configuration and
\* timeout, also after a setter that returned an error.
C7_OpenPortMatchesConfiguration ==
  \A p \in PortIds :
    (ports[p].exists /\ ports[p].is_open /\ ~cloned) => Applied(p)

\* C8 (as claimed): after close() on an Open port, whether it returned Ok
\* or an error, the port is Closed and no longer holds the handle.
C8_CloseAlwaysCloses ==
  (Acted("close") /\ last.calls # <<>>)
    => /\ ~LastPort.is_open
       /\ LastPort.handle = INVALID_HANDLE_VALUE

\* C8 (amended): close() on an Open port returns Ok exactly when the OS
\* released the handle, and then the port is Closed and holds the invalid
\* sentinel; when CloseHandle fails, close() returns that error and
\* nothing changes: the port stays Open and keeps the unreleased handle.
C8_CloseReleasesUnlessRefused ==
  [][\A p \in PortIds :
       (/\ last'.op = "close"
        /\ last'.port = p
        /\ ports[p].exists
        /\ ports[p].is_open)
       => IF last'.res = Ok
          THEN /\ ~ports'[p].is_open
               /\ ports'[p].handle = INVALID_HANDLE_VALUE
               /\ ports[p].handle \notin os'.live
          ELSE /\ last'.res = OsErr("Other", "CloseHandle")
               /\ ports' = ports
               /\ os' = os]_vars

\* C8 witness: close() on an Open port has returned the CloseHandle error
\* and the port is still Open with its handle open at the OS.
C8_Witness ==
  /\ Acted("close")
  /\ last.res = OsErr("Other", "CloseHandle")
  /\ LastPort.is_open
  /\ LastPort.handle \in os.live

\* C9: open() on an Open port returns AlreadyExists, makes no OS call and
\* changes neither the port (handle, configuration) nor the OS state.
C9_OpenOnOpenPortChangesNothing ==
  [][\A p \in PortIds :
       (/\ last'.op = "open"
        /\ last'.port = p
        /\ ports[p].exists
        /\ ports[p].is_open)
       => /\ last'.res = Err("AlreadyExists")
          /\ last'.calls = <<>>
          /\ ports' = ports
          /\ os' = os]_vars

\* C9 witness: open() has returned AlreadyExists on a port that is Open.
C9_Witness ==
  /\ Acted("open")
  /\ last.res = Err("AlreadyExists")
  /\ LastPort.is_open
  /\ LastPort.handle \in os.live

\* C10 (as claimed): open() on a port whose identifier is empty returns
\* InvalidInput without an OS call, and the port is Closed with no handle.
C10_OpenWithEmptyPath ==
  (Acted("open") /\ LastPort.builder.path = "")
    => /\ last.res = Err("InvalidInput")
       /\ last.calls = <<>>
       /\ ~LastPort.is_open
       /\ LastPort.handle = INVALID_HANDLE_VALUE

\* C11: close() is idempotent: on a port that is already Closed it returns
\* Ok, makes no OS call and changes neither the port nor the OS state; and
\* close() on an Open port whose release the OS performs returns Ok and
\* leaves the port Closed, so a second close() right after it is that case
\* and returns Ok as well.
C11_CloseIdempotent ==
  [][\A p \in PortIds :
       (/\ last'.op = "close"
        /\ last'.port = p
        /\ ports[p].exists)
       => /\ ~ports[p].is_open
             => /\ last'.res = Ok
                /\ last'.calls = <<>>
                /\ ports' = ports
                /\ os' = os
          /\ (ports[p].is_open /\ ~ReleaseRefused')
             => /\ last'.res = Ok
                /\ ~ports'[p].is_open]_vars

\* C11 witness: close() has returned Ok without an OS call on a port that
\* was opened and closed before: it names a device, is Closed and holds
\* the invalid sentinel.
C11_Witness ==
  /\ Acted("close")
  /\ last.res = Ok
  /\ last.calls = <<>>
  /\ ~LastPort.is_open
  /\ LastPort.builder.path # ""
  /\ LastPort.handle = INVALID_HANDLE_VALUE
  /\ ops >= 3

\* C12: set_path(new_id) on an Open port whose close step succeeds: on
\* return the stored identifier is new_id whether or not the reopen
\* succeeded, and nothing else of the stored configuration changed; the
\* port is Open exactly when the call returned Ok; when the reopen fails
\* the call returns the error of open() (InvalidInput for an empty new_id,
\* NotFound from CreateFileW for an absent device) and is_open() is false.
C12_SetPathStoresIdentifier ==
  [][\A p \in PortIds :
       (/\ last'.op = "set_path"
        /\ last'.port = p
        /\ ports[p].exists
        /\ ports[p].is_open
        /\ ~ReleaseRefused')
       => \A path \in Paths, oc \in SetPathOutcomes :
            SetPath(p, path, oc)
              => /\ ports'[p].builder = [ports[p].builder EXCEPT !.path = path]
                 /\ ports'[p].is_open <=> last'.res = Ok
                 /\ path = "" => last'.res = Err("InvalidInput")
                 /\ (path # "" /\ PrefixPort(path) \notin Devices)
                      => last'.res = OsErr("NotFound", "CreateFileW")
                 /\ last'.res # Ok
                      => \/ last'.res = Err("InvalidInput")
                         \/ last'.res.api \in {"CreateFileW"} \cup Applying]_vars

\* C12 witness: set_path("COM9") on an Open port has closed it, stored the
\* identifier and failed to reopen: the call returned NotFound, the port is
\* Closed and names COM9.
C12_Witness ==
  /\ Acted("set_path")
  /\ last.res = OsErr("NotFound", "CreateFileW")
  /\ Len(last.calls) = 2
  /\ last.calls[1] = Call("CloseHandle", last.calls[1].h, TRUE)
  /\ ~LastPort.is_open
  /\ LastPort.builder.path = "COM9"

\* C13 (as claimed): the identifier is never swapped under a live handle:
\* every handle to a serial device that a Port holds is a handle to the
\* device its stored identifier names.
C13_HandleOnNamedDevice ==
  \A p \in PortIds :
    (/\ ports[p].exists
     /\ ports[p].handle \in os.live
     /\ os.dev[ports[p].handle] \in Devices)
    => os.dev[ports[p].handle] = PrefixPort(ports[p].builder.path)

\* C14: set_path(new_id) on a Closed port only stores the identifier: it
\* returns Ok, makes no OS call (so no open attempt), changes nothing at
\* the OS, leaves is_open() false and the handle field and every other
\* configuration field as they were, and touches no other Port.
C14_SetPathOnClosedPort ==
  [][\A p \in PortIds :
       (/\ last'.op = "set_path"
        /\ last'.port = p
        /\ ports[p].exists
        /\ ~ports[p].is_open)
       => \A path \in Paths, oc \in SetPathOutcomes :
            SetPath(p, path, oc)
              => /\ last'.res = Ok
                 /\ last'.calls = <<>>
                 /\ os' = os
                 /\ ports' = [ports EXCEPT ![p].builder.path = path]
                 /\ ~ports'[p].is_open]_vars

\* C14 witness: set_path("COM1") has returned Ok without an OS call on a
\* Closed port, which now names COM1 while no handle is open at the OS.
C14_Witness ==
  /\ Acted("set_path")
  /\ last.res = Ok
  /\ last.calls = <<>>
  /\ ~LastPort.is_open
  /\ LastPort.builder.path = "COM1"
  /\ LastPort.handle = INVALID_HANDLE_VALUE
  /\ os.live = {}

\* What a device must hold for the stored configuration b to be in force
\* on it, field by field: the baud rate as a number, 5..8 data bits, the
\* stop-bit and parity codes, the four flow-control flags, and the timeout
\* in milliseconds as both total-timeout constants.
HoldsConfiguration(o, h, b) ==
  LET d == o.dev[h] IN
  /\ h \in o.live
  /\ d \in Devices
  /\ o.dcb[d].BaudRate = b.baud_rate
  /\ o.dcb[d].ByteSize = (CASE b.data_bits = "Five" -> 5
                            [] b.data_bits = "Six" -> 6
                            [] b.data_bits = "Seven" -> 7
                            [] b.data_bits = "Eight" -> 8)
  /\ o.dcb[d].StopBits = (CASE b.stop_bits = "One" -> ONESTOPBIT
                            [] b.stop_bits = "OnePointFive" -> ONE5STOPBITS
                            [] b.stop_bits = "Two" -> TWOSTOPBITS)
  /\ o.dcb[d].Parity = (CASE b.parity = "None" -> NOPARITY
                          [] b.parity = "Odd" -> ODDPARITY
                          [] b.parity = "Even" -> EVENPARITY
                          [] b.parity = "Mark" -> MARKPARITY
                          [] b.parity = "Space" -> SPACEPARITY)
  /\ o.dcb[d].fOutxCtsFlow = (IF b.flow_control = "Hardware" THEN 1 ELSE 0)
  /\ o.dcb[d].fRtsControl = (IF b.flow_control = "Hardware"
                             THEN RTS_CONTROL_HANDSHAKE
                             ELSE RTS_CONTROL_DISABLE)
  /\ o.dcb[d].fOutX = (IF b.flow_control = "Software" THEN 1 ELSE 0)
  /\ o.dcb[d].fInX = (IF b.flow_control = "Software" THEN 1 ELSE 0)
  /\ o.timeouts[d].ReadTotalTimeoutConstant = AsMillis(b.timeout)
  /\ o.timeouts[d].WriteTotalTimeoutConstant = AsMillis(b.timeout)

\* The stored configurations one setter call can ask for, from b0.
RequestedBuilders(b0) ==
  {[b0 EXCEPT !.baud_rate = v] : v \in BaudRates}
    \cup {[b0 EXCEPT !.data_bits = v] : v \in DataBitsValues}
    \cup {[b0 EXCEPT !.flow_control = v] : v \in FlowControlValues}
    \cup {[b0 EXCEPT !.parity = v] : v \in ParityValues}
    \cup {[b0 EXCEPT !.stop_bits = v] : v \in StopBitsValues}
    \cup {[b0 EXCEPT !.timeout = v] : v \in Timeouts}

\* This step is an open() of Port p that returned Ok, and it put the whole
\* stored configuration of p, which it did not change, in force.
OpenApplies(p) ==
  (/\ last'.op = "open"
   /\ last'.port = p
   /\ ports[p].exists
   /\ last'.res = Ok)
  => /\ ports'[p].is_open
     /\ ports'[p].builder = ports[p].builder
     /\ HoldsConfiguration(os', ports'[p].handle, ports'[p].builder)

\* C15: construction: build() with an empty identifier returns a Closed
\* port without an OS call; with a non-empty identifier it either returns
\* an Open port holding the builder's values, which are in force on the
\* device, or returns the error of open() and no Port; it never returns a
\* Closed port that holds a non-empty identifier.
C15_Construction ==
  [][\A p \in PortIds :
       (last'.op = "build" /\ last'.port = p)
       => \A path \in Paths, baud_rate \in BaudRates, oc \in OpenOutcomes :
            Build(p, path, baud_rate, oc)
              => LET b == [SerialPortBuilderNew EXCEPT !.path = path,
                             !.baud_rate = baud_rate] IN
                 IF last'.res = Ok
                 THEN /\ ports'[p].exists
                      /\ ports'[p].builder = b
                      /\ ports'[p].is_open <=> path # ""
                      /\ path = ""
                           => /\ last'.calls = <<>>
                              /\ os' = os
                              /\ ports'[p].handle = INVALID_HANDLE_VALUE
                      /\ path # ""
                           => HoldsConfiguration(os', ports'[p].handle, b)
                 ELSE /\ path # ""
                      /\ ~ports'[p].exists
                      /\ last'.res.api \in {"CreateFileW"} \cup Applying]_vars

\* C15 witness: build() of ("COM1", 115200) has returned an Open port and
\* the device runs at 115200 baud.
C15_Witness ==
  /\ Acted("build")
  /\ last.res = Ok
  /\ LastPort.is_open
  /\ LastPort.builder.path = "COM1"
  /\ LastPort.builder.baud_rate = 115200
  /\ os.dcb[os.dev[LastPort.handle]].BaudRate = 115200

\* C16: try_clone() on an Open port that returns Ok yields a second Open
\* Port with a handle of its own, distinct from the source's, both open at
\* the OS on the same device; close() or drop of a Port passes only that
\* Port's handle to CloseHandle, releases no other handle, and leaves every
\* other Port as it was, an Open one with its handle still open on its
\* device, so that a transfer or flush on it still reaches the OS.
C16_ClonesOwnTheirHandles ==
  [][\A p \in PortIds :
       /\ (/\ last'.op = "try_clone"
           /\ last'.port = p
           /\ ports[p].exists
           /\ ports[p].is_open
           /\ last'.res = Ok)
          => /\ ports'[last'.n].exists
             /\ ports'[last'.n].is_open
             /\ ports'[last'.n].handle # ports'[p].handle
             /\ {ports'[last'.n].handle, ports'[p].handle} \subseteq os'.live
             /\ os'.dev[ports'[last'.n].handle] = os'.dev[ports'[p].handle]
             /\ os'.dev[ports'[p].handle] \in Devices
       /\ (/\ last'.op \in {"close", "drop"}
           /\ last'.port = p
           /\ ports[p].exists)
          => /\ \A i \in DOMAIN last'.calls :
                  last'.calls[i].h = ports[p].handle
             /\ os.live \ {ports[p].handle} \subseteq os'.live
             /\ \A q \in PortIds \ {p} :
                  /\ ports'[q] = ports[q]
                  /\ (ports[q].exists /\ ports[q].is_open)
                       => /\ ports[q].handle \in os'.live
                          /\ os'.dev[ports[q].handle] = os.dev[ports[q].handle]
                          /\ TransferFile(os', ports[q].handle, 1, 1, TRUE).ok
                          /\ FlushFileBuffers(os', ports[q].handle, TRUE)]_vars

\* C16 witness: of an Open port and its Open clone one has been closed, its
\* handle released, and the other is still Open on a handle that is open
\* at the OS on the device.
C16_Witness ==
  /\ Acted("close")
  /\ cloned
  /\ last.res = Ok
  /\ last.calls # <<>>
  /\ ~LastPort.is_open
  /\ last.calls[1].h \notin os.live
  /\ \E q \in PortIds \ {last.port} :
       /\ ports[q].exists
       /\ ports[q].is_open
       /\ ports[q].handle \in os.live
       /\ os.dev[ports[q].handle] \in Devices

\* C17: try_clone() works the same on an Open and on a Closed port: it
\* makes the one DuplicateHandle call on the source's handle field and
\* returns Ok exactly when the OS performs it; the clone then holds an
\* equal copy of the source's stored configuration and the source's
\* is_open (false for a Closed source); the source, and every other Port,
\* is unchanged; when the OS refuses, nothing changes.
C17_CloneInEitherState ==
  [][\A p \in PortIds :
       (/\ last'.op = "try_clone"
        /\ last'.port = p
        /\ ports[p].exists)
       => /\ last'.calls
               = <<Call("DuplicateHandle", ports[p].handle, last'.res = Ok)>>
          /\ IF last'.res = Ok
             THEN /\ ~ports[last'.n].exists
                  /\ ports'[last'.n].exists
                  /\ ports'[last'.n].is_open = ports[p].is_open
                  /\ ports'[last'.n].builder = ports[p].builder
                  /\ \A q \in PortIds \ {last'.n} : ports'[q] = ports[q]
             ELSE /\ last'.res = OsErr("Other", "DuplicateHandle")
                  /\ ports' = ports
                  /\ os' = os]_vars

\* C17 witness: try_clone() on a Closed port has returned a Closed clone
\* holding the source's stored configuration, the source still Closed.
C17_Witness ==
  /\ Acted("try_clone")
  /\ last.res = Ok
  /\ ~LastPort.is_open
  /\ ports[last.n].exists
  /\ ~ports[last.n].is_open
  /\ ports[last.n].builder = LastPort.builder
  /\ LastPort.builder.path = "COM1"

\* C18: a setter that returns Ok on an Open port has put the Port's whole
\* stored configuration in force on the device, not only the field it
\* set, and has changed no other Port; so between two Open clones the
\* device holds every field as the last writer stores it.
C18_SetterWritesWholeConfiguration ==
  [][\A p \in PortIds :
       (/\ last'.op \in SetterOps
        /\ last'.port = p
        /\ ports[p].exists
        /\ ports[p].is_open
        /\ last'.res = Ok)
       => /\ ports'[p].is_open
          /\ ports'[p].handle = ports[p].handle
          /\ HoldsConfiguration(os', ports'[p].handle, ports'[p].builder)
          /\ \A q \in PortIds \ {p} : ports'[q] = ports[q]]_vars

\* C18 witness: with two Open clones of one device, after the one set its
\* baud rate the other has set its parity: the device runs at the baud
\* rate the parity setter's Port stores, not at the one the first Port
\* stores, and that first Port still stores its own.
C18_Witness ==
  /\ Acted("set_parity")
  /\ last.res = Ok
  /\ LastPort.is_open
  /\ \E q \in PortIds \ {last.port} :
       /\ ports[q].exists
       /\ ports[q].is_open
       /\ os.dev[ports[q].handle] = os.dev[LastPort.handle]
       /\ ports[q].builder.baud_rate # LastPort.builder.baud_rate
       /\ os.dcb[os.dev[LastPort.handle]].BaudRate
            = LastPort.builder.baud_rate
       /\ LastPort.builder.parity = "Even"
       /\ os.dcb[os.dev[LastPort.handle]].Parity = EVENPARITY

\* C19: a setter that returns an error on an Open port leaves the value it
\* was asked to set in the stored configuration (no roll back); and an
\* open() that returns Ok puts the whole stored configuration, that value
\* included, in force on the device.
C19_FailedSetterKeepsValue ==
  [][\A p \in PortIds :
       /\ (/\ last'.op \in SetterOps
           /\ last'.port = p
           /\ ports[p].exists
           /\ ports[p].is_open
           /\ last'.res # Ok)
          => \A b \in RequestedBuilders(ports[p].builder),
                oc \in ReconfigureOutcomes :
               Setter(last'.op, p, b, oc) => ports'[p].builder = b
       /\ OpenApplies(p)]_vars

\* C19 witness: build("COM1"), a set_parity(Even) that failed and closed
\* the port, then open(): three operations after which the port is Open
\* and the device uses even parity.
C19_Witness ==
  /\ Acted("open")
  /\ ops = 3
  /\ last.res = Ok
  /\ LastPort.is_open
  /\ LastPort.builder.parity = "Even"
  /\ os.dcb[os.dev[LastPort.handle]].Parity = EVENPARITY

\* C20: a setter on a Closed port returns Ok, makes no OS call, changes
\* nothing at the OS and nothing of the Port but the stored value, so the
\* port stays Closed; and an open() that returns Ok puts the whole stored
\* configuration, hence the last value set for every field, in force.
C20_SettersOnClosedPort ==
  [][\A p \in PortIds :
       /\ (/\ last'.op \in SetterOps
           /\ last'.port = p
           /\ ports[p].exists
           /\ ~ports[p].is_open)
          => \A b \in RequestedBuilders(ports[p].builder),
                oc \in ReconfigureOutcomes :
               Setter(last'.op, p, b, oc)
                 => /\ last'.res = Ok
                    /\ last'.calls = <<>>
                    /\ os' = os
                    /\ ports' = [ports EXCEPT ![p].builder = b]
                    /\ ~ports'[p].is_open
       /\ OpenApplies(p)]_vars

\* C20 witness: set_flow_control(Hardware) has returned Ok without an OS
\* call on a Closed port that names COM1: the port stores the value, is
\* still Closed, and the device does not have the CTS flag.
C20_Witness ==
  /\ Acted("set_flow_control")
  /\ last.res = Ok
  /\ last.calls = <<>>
  /\ ~LastPort.is_open
  /\ LastPort.builder.path = "COM1"
  /\ LastPort.builder.flow_control = "Hardware"
  /\ os.dcb[PrefixPort("COM1")].fOutxCtsFlow = 0

\* The stored configurations one setter call can ask for, from b0, over the
\* whole domain of every field.
RequestedOfAll(b0) ==
  {[b0 EXCEPT !.data_bits = v] : v \in AllDataBits}
    \cup {[b0 EXCEPT !.flow_control = v] : v \in AllFlowControl}
    \cup {[b0 EXCEPT !.parity = v] : v \in AllParity}
    \cup {[b0 EXCEPT !.stop_bits = v] : v \in AllStopBits}
    \cup {[b0 EXCEPT !.timeout = v] : v \in EdgeTimeouts}

\* This step is the setter setop of Port p, and it leaves the value it was
\* asked to set in the stored configuration.
StoresRequested(p, setop) ==
  (/\ last'.op = setop
   /\ last'.port = p
   /\ ports[p].exists)
  => \A b \in RequestedOfAll(ports[p].builder), oc \in TranslateOutcomes :
       Setter(setop, p, b, oc) => ports'[p].builder = b

\* This step is the getter getop of Port p, taken right after the setter
\* setop returned Ok on p, Open; unless the OS refuses the read, it returns
\* the value v.
ReadsBack(p, setop, getop, v) ==
  (/\ last'.op = getop
   /\ last'.port = p
   /\ last.op = setop
   /\ last.port = p
   /\ last.res = Ok
   /\ ports[p].is_open
   /\ last'.calls[1].ok)
  => /\ last'.res = Ok
     /\ last'.val = v

\* C21: round trip on an Open port: a set_data_bits(v), set_parity(v) or
\* set_stop_bits(v) that returned Ok stored v, and the data_bits(),
\* parity() or stop_bits() called right after it returns v, for every v of
\* the field's domain and whatever the other fields hold.
C21_RoundTrip ==
  [][\A p \in PortIds :
       /\ StoresRequested(p, "set_data_bits")
       /\ StoresRequested(p, "set_parity")
       /\ StoresRequested(p, "set_stop_bits")
       /\ ReadsBack(p, "set_data_bits", "data_bits",
                    ports[p].builder.data_bits)
       /\ ReadsBack(p, "set_parity", "parity", ports[p].builder.parity)
       /\ ReadsBack(p, "set_stop_bits", "stop_bits",
                    ports[p].builder.stop_bits)]_vars

\* C21 witness: build, set_stop_bits(OnePointFive), stop_bits(): the
\* getter has returned OnePointFive.
C21_Witness ==
  /\ Acted("stop_bits")
  /\ ops = 3
  /\ last.res = Ok
  /\ last.val = "OnePointFive"
  /\ LastPort.is_open
  /\ LastPort.builder.stop_bits = "OnePointFive"

\* C22: flow-control round trip on an Open port: a set_flow_control(v) that
\* returned Ok stored v, and the flow_control() called right after it
\* returns v, for None, Software and Hardware and whichever of the three
\* the device held before.
C22_FlowControlRoundTrip ==
  [][\A p \in PortIds :
       /\ StoresRequested(p, "set_flow_control")
       /\ ReadsBack(p, "set_flow_control", "flow_control",
                    ports[p].builder.flow_control)]_vars

\* C22 witness: build, set_flow_control(Hardware),
\* set_flow_control(Software), flow_control(): the getter has returned
\* Software on a device that held the hardware flags before.
C22_Witness ==
  /\ Acted("flow_control")
  /\ ops = 4
  /\ last.res = Ok
  /\ last.val = "Software"
  /\ LastPort.is_open
  /\ LastPort.builder.flow_control = "Software"
  /\ os.dcb[os.dev[LastPort.handle]].fRtsControl = RTS_CONTROL_DISABLE

\* The four flow-control flags of a control block: CTS output flow, RTS
\* control, XON (output), XOFF (input).
FlowFlags(dcb) ==
  <<dcb.fOutxCtsFlow, dcb.fRtsControl, dcb.fOutX, dcb.fInX>>

\* C23: applying flow control is total and unambiguous: whenever an
\* operation has written a control block (SetCommState succeeded), the
\* device holds, for None, CTS flow 0, RTS disabled, XON 0 and XOFF 0; for
\* Software CTS flow 0, RTS disabled, XON 1 and XOFF 1; for Hardware CTS
\* flow 1, RTS handshake, XON 0 and XOFF 0; whatever the four flags were
\* before.
C23_FlowControlFlags ==
  [][\A i \in DOMAIN last'.calls :
       (last'.calls[i].api = "SetCommState" /\ last'.calls[i].ok)
       => LET v == ports'[last'.port].builder.flow_control
              d == os'.dev[last'.calls[i].h] IN
          /\ v \in AllFlowControl
          /\ FlowFlags(os'.dcb[d])
               = (CASE v = "None" -> <<0, RTS_CONTROL_DISABLE, 0, 0>>
                    [] v = "Software" -> <<0, RTS_CONTROL_DISABLE, 1, 1>>
                    [] v = "Hardware" -> <<1, RTS_CONTROL_HANDSHAKE, 0, 0>>)]_vars

\* C23 witness: a port built Closed, given Software flow control and an
\* identifier, has been opened for the first time on the device, which now
\* holds XON and XOFF and neither hardware flag.
C23_Witness ==
  /\ Acted("open")
  /\ ops = 4
  /\ last.res = Ok
  /\ LastPort.builder.flow_control = "Software"
  /\ FlowFlags(os.dcb[os.dev[LastPort.handle]])
       = <<0, RTS_CONTROL_DISABLE, 1, 1>>

\* C24: flow-control read-back follows Hardware > Software > None for every
\* combination of the raw flags: flow_control(), when GetCommState
\* succeeds, returns Hardware exactly when CTS output flow is set or RTS
\* control is not "disable", whatever XON and XOFF are; otherwise Software
\* exactly when XON or XOFF is set; otherwise None.
C24_FlowControlPriority ==
  (/\ Acted("flow_control")
   /\ last.calls[1].ok)
  => LET dcb == os.dcb[os.dev[LastPort.handle]]
         hardware == dcb.fOutxCtsFlow = 1
                       \/ dcb.fRtsControl \in RawRtsControls
                                                \ {RTS_CONTROL_DISABLE}
         software == dcb.fOutX = 1 \/ dcb.fInX = 1 IN
     /\ last.res = Ok
     /\ last.val = "Hardware" <=> hardware
     /\ last.val = "Software" <=> (~hardware /\ software)
     /\ last.val = "None" <=> (~hardware /\ ~software)

\* C24 witness: flow_control() has returned Hardware for a control block
\* that has RTS control "toggle" and also XON and XOFF set.
C24_Witness ==
  /\ Acted("flow_control")
  /\ last.res = Ok
  /\ last.val = "Hardware"
  /\ FlowFlags(os.dcb[os.dev[LastPort.handle]]) = <<0, 3, 1, 1>>

\* C25: read-back of a raw value outside the mapped set is InvalidData:
\* when GetCommState succeeds, data_bits() returns a value exactly for the
\* byte sizes 5, 6, 7, 8, stop_bits() exactly for the three stop-bit codes
\* and parity() exactly for the five parity codes, and each returns
\* InvalidData for every other raw value.
C25_UnmappedIsInvalidData ==
  (/\ last.op \in {"data_bits", "stop_bits", "parity"}
   /\ last.port \in PortIds
   /\ LastPort.exists
   /\ last.calls[1].ok)
  => LET dcb == os.dcb[os.dev[LastPort.handle]]
         mapped ==
           CASE last.op = "data_bits" -> dcb.ByteSize \in 5..8
             [] last.op = "stop_bits" ->
                  dcb.StopBits \in {ONESTOPBIT, ONE5STOPBITS, TWOSTOPBITS}
             [] last.op = "parity" ->
                  dcb.Parity \in {NOPARITY, ODDPARITY, EVENPARITY,
                                  MARKPARITY, SPACEPARITY} IN
     IF mapped
     THEN /\ last.res = Ok
          /\ last.val \in AllDataBits \cup AllStopBits \cup AllParity
     ELSE /\ last.res = Err("InvalidData")
          /\ last.val = NoValue

\* C25 witness: data_bits() has returned InvalidData for a device whose
\* control block holds the byte size 9.
C25_Witness ==
  /\ Acted("data_bits")
  /\ last.calls[1].ok
  /\ last.res = Err("InvalidData")
  /\ os.dcb[os.dev[LastPort.handle]].ByteSize = 9

\* C26: timeout clamping: whenever an operation has written the timeouts
\* (SetCommTimeouts succeeded), the read-total and the write-total constant
\* of the device are equal to each other and equal to the stored timeout in
\* whole milliseconds when that is at most 4294967294 (MAXDWORD - 1, the
\* largest constant the platform takes as a timeout), and to 4294967294
\* for every longer duration, those past the 32-bit range included; the
\* value is never the millisecond count modulo 2^32.
C26_TimeoutClamped ==
  [][\A i \in DOMAIN last'.calls :
       (last'.calls[i].api = "SetCommTimeouts" /\ last'.calls[i].ok)
       => LET t == ports'[last'.port].builder.timeout
              w == os'.timeouts[os'.dev[last'.calls[i].h]]
              ms == t.nanos \div 1000000
              fits == t.secs < 4294967 \/ (t.secs = 4294967 /\ ms <= 294) IN
          /\ w.ReadTotalTimeoutConstant = w.WriteTotalTimeoutConstant
          /\ w.ReadTotalTimeoutConstant
               = (IF fits THEN [k |-> t.secs, r |-> ms]
                  ELSE [k |-> 4294967, r |-> 294])]_vars

\* C26 witness: set_timeout has succeeded on an Open port with 4294968
\* seconds, more milliseconds than 32 bits hold, and the device holds
\* 4294967294 in both constants.
C26_Witness ==
  /\ Acted("set_timeout")
  /\ last.res = Ok
  /\ LastPort.is_open
  /\ LastPort.builder.timeout = Duration(4294968, 0)
  /\ os.timeouts[os.dev[LastPort.handle]].ReadTotalTimeoutConstant
       = Ms(4294967, 294)
  /\ os.timeouts[os.dev[LastPort.handle]].WriteTotalTimeoutConstant
       = Ms(4294967, 294)

\* C27: non-blocking mode is selected exactly when timeout == 0: after a
\* successful set_timeout on an Open port the device's read-total and
\* write-total constants are zero if the timeout is zero, and both non-zero
\* for every timeout greater than zero, durations under one millisecond
\* included.
C27_NonBlockingExactlyAtZero ==
  (/\ Acted("set_timeout")
   /\ last.res = Ok
   /\ LastPort.is_open)
  => LET w == os.timeouts[os.dev[LastPort.handle]] IN
     IF LastPort.builder.timeout = DurationZERO
     THEN /\ w.ReadTotalTimeoutConstant = Ms(0, 0)
          /\ w.WriteTotalTimeoutConstant = Ms(0, 0)
     ELSE /\ w.ReadTotalTimeoutConstant # Ms(0, 0)
          /\ w.WriteTotalTimeoutConstant # Ms(0, 0)

\* C28: read(), write() and flush() on a port that is not open fail with
\* NotConnected, make no OS call and change neither the port nor the
\* devices, in every reachable state of a port that is not open, those
\* left by a failed open or by the fail-safe close included.
C28_IoOnClosedPort ==
  [][(/\ last'.op \in {"read", "write", "flush"}
      /\ ~ports[last'.port].is_open)
     => /\ last'.res = Err("NotConnected")
        /\ last'.calls = <<>>
        /\ last'.n = 0
        /\ ports' = ports
        /\ os' = os]_vars

\* C28 witness: read() has failed with NotConnected on a port that is not
\* open and still stores the handle its failed open left behind.
C28_Witness ==
  /\ Acted("read")
  /\ last.res = Err("NotConnected")
  /\ last.calls = <<>>
  /\ ~LastPort.is_open
  /\ LastPort.handle \in os.live

\* C29: clear(), bytes_to_read() and bytes_to_write() on a port that is
\* not open fail with NotConnected, as read and write do: not with an
\* unclassified OS error and not with success.
C29_QueriesOnClosedPort ==
  (/\ last.op \in {"clear", "bytes_to_read", "bytes_to_write"}
   /\ ~LastPort.is_open)
  => last.res = Err("NotConnected")

\* C30: read() on an Open port returns Ok(n) with n >= 1 exactly when the
\* OS call succeeded and transferred n bytes, and TimedOut whenever the OS
\* call succeeded with zero bytes transferred (nothing arrived, or the
\* buffer has length zero); it never returns Ok(0).
C30_ReadResult ==
  [][(/\ last'.op = "read"
      /\ ports[last'.port].is_open)
     => \A len \in BufLens, oc \in IoOutcomes : \A n \in 0..len :
          Read(last'.port, len, n, oc)
          => LET transferred == last'.calls[1].ok IN
             /\ last'.calls[1].api = "ReadFile"
             /\ transferred = oc.io
             /\ (transferred /\ n >= 1) => (last'.res = Ok /\ last'.n = n)
             /\ (transferred /\ n = 0) => last'.res = Err("TimedOut")
             /\ last'.res = Ok => (transferred /\ n >= 1 /\ last'.n = n)]_vars

\* C30 witness: read() on an Open port has returned TimedOut after a
\* ReadFile call that succeeded and transferred nothing.
C30_Witness ==
  /\ Acted("read")
  /\ LastPort.is_open
  /\ last.calls = <<Call("ReadFile", LastPort.handle, TRUE)>>
  /\ last.n = 0
  /\ last.res = Err("TimedOut")

\* C31: with timeout D > 0 and no data available, read() on an Open port
\* returns TimedOut only after at least D has elapsed: the wait of the
\* ReadFile call is no shorter than the stored timeout; with timeout 0 it
\* returns TimedOut without waiting.
C31_ReadWaitsForTimeout ==
  (/\ Acted("read")
   /\ LastPort.is_open
   /\ last.res = Err("TimedOut"))
  => LET D == LastPort.builder.timeout
         waited == ReadFileWait(os, LastPort.handle) IN
     IF D = DurationZERO
     THEN waited = Ms(0, 0)
     ELSE \/ waited.k > D.secs
          \/ waited.k = D.secs /\ waited.r * 1000000 >= D.nanos

\* C32: clear(selector) purges and aborts exactly the selected directions:
\* the flags it passes to PurgeComm are, for Input, receive-clear and
\* receive-abort and neither transmit flag; for Output, transmit-clear and
\* transmit-abort and neither receive flag; for All, all four; and the call
\* changes neither is_open, nor the stored configuration, nor the handle,
\* nor the device's control block and timeouts.
C32_ClearSelectsDirection ==
  [][last'.op = "clear"
     => \A b \in ClearBuffers :
          Clear(last'.port, b, AllOk)
          => LET flags == last'.val
                 rx == {"PURGE_RXABORT", "PURGE_RXCLEAR"}
                 tx == {"PURGE_TXABORT", "PURGE_TXCLEAR"} IN
             /\ last'.calls[1].api = "PurgeComm"
             /\ b = "Input" => (rx \subseteq flags /\ flags \cap tx = {})
             /\ b = "Output" => (tx \subseteq flags /\ flags \cap rx = {})
             /\ b = "All" => (rx \cup tx) \subseteq flags
             /\ flags \subseteq rx \cup tx
             /\ ports' = ports
             /\ os' = os]_vars

\* C32 witness: clear(Input) has succeeded on an Open port, passing the two
\* receive flags only.
C32_Witness ==
  /\ Acted("clear")
  /\ LastPort.is_open
  /\ last.res = Ok
  /\ last.calls = <<Call("PurgeComm", LastPort.handle, TRUE)>>
  /\ last.val = {"PURGE_RXABORT", "PURGE_RXCLEAR"}

\* C33: apart from the implicit close of disposal, no operation swallows an
\* OS failure: whenever an OS call made by an explicit operation (build and
\* open, close, set_path, the field setters, try_clone, read, write, flush,
\* clear, bytes_to_read, bytes_to_write, the getters) has failed, the
\* operation returns an error; and no operation retries: after a failed
\* call the operation does not call the same API again.
C33_NoSwallowedFailure ==
  last.op \notin {"init", "drop"}
  => /\ (\E i \in DOMAIN last.calls : ~last.calls[i].ok) => last.res # Ok
     /\ \A i, j \in DOMAIN last.calls :
          (i < j /\ ~last.calls[i].ok)
          => last.calls[j].api # last.calls[i].api

\* C33 witness: a setter on an Open port has read and written the control
\* block, SetCommTimeouts has then failed, and the setter has returned that
\* error.
C33_Witness ==
  /\ Acted("set_baud_rate")
  /\ Len(last.calls) = 3
  /\ last.calls[3] = Call("SetCommTimeouts", LastPort.handle, FALSE)
  /\ last.res = OsErr("Other", "SetCommTimeouts")

\* C34: in every reachable state, clones and the states after a failed
\* set_path included, a Port that reports is_open() == true has a non-empty
\* device identifier.
C34_OpenHasIdentifier ==
  \A p \in PortIds :
    (ports[p].exists /\ ports[p].is_open) => ports[p].builder.path # ""

\* C34 witness: set_path("") on an Open port has released the handle,
\* stored the empty identifier and failed to reopen with InvalidInput; the
\* port is not open.
C34_Witness ==
  /\ Acted("set_path")
  /\ LastPort.builder.path = ""
  /\ last.res = Err("InvalidInput")
  /\ Len(last.calls) = 1
  /\ last.calls[1].api = "CloseHandle"
  /\ last.calls[1].ok
  /\ ~LastPort.is_open

\* C35: if open() fails at handle acquisition (CreateFileW fails: device
\* absent, access denied, device already held), the Port is left exactly
\* as before the call: not open, no handle, configuration and identifier
\* unchanged; the OS error is returned and no control-block or timeout
\* call is made.
C35_FailedAcquisition ==
  [][(/\ last'.op = "open"
      /\ last'.calls # <<>>
      /\ last'.calls[1] = Call("CreateFileW", INVALID_HANDLE_VALUE, FALSE))
     => /\ Len(last'.calls) = 1
        /\ last'.res.kind \in {"NotFound", "PermissionDenied"}
        /\ last'.res.api = "CreateFileW"
        /\ ports' = ports
        /\ os' = os
        /\ ~ports'[last'.port].is_open
        /\ ports'[last'.port].handle = INVALID_HANDLE_VALUE]_vars

\* C36: reopen: from every reachable state of a Port with a non-empty
\* identifier, those after a failed open or a failed reconfiguration
\* included, close() followed by open() ends with the port Open, provided
\* the device exists, no other Port holds a handle to it, and the OS calls
\* of that close and of that open succeed (the OS refuses nothing of its
\* own accord).
C36_CloseThenOpen ==
  [][\A p \in PortIds :
       (/\ last.op = "close"
        /\ last.port = p
        /\ last.res = Ok
        /\ ports[p].exists
        /\ ports[p].builder.path # ""
        /\ PrefixPort(ports[p].builder.path) \in Devices
        /\ \A q \in PortIds \ {p} :
             ports[q].exists => ports[q].handle \notin os.live
        /\ OpenOp(p, AllOk))
       => /\ last'.res = Ok
          /\ ports'[p].is_open]_vars

\* The control-block fields update() assigns.
UpdatedFields ==
  {"BaudRate", "ByteSize", "StopBits", "Parity",
   "fOutxCtsFlow", "fRtsControl", "fOutX", "fInX"}

\* C37: applying a configuration starts from the control block the OS holds
\* and changes only baud rate, byte size, stop bits, parity and the four
\* flow-control flags: in every step every other field of every device's
\* control block keeps its value; and when reading the control block fails
\* nothing is written: no SetCommState or SetCommTimeouts call follows and
\* control blocks and timeouts are as before.
C37_UpdateFrame ==
  [][/\ \A d \in Devices : \A f \in DOMAIN os.dcb[d] \ UpdatedFields :
          os'.dcb[d][f] = os.dcb[d][f]
     /\ \A i \in DOMAIN last'.calls :
          (last'.calls[i].api = "GetCommState" /\ ~last'.calls[i].ok)
          => /\ \A j \in DOMAIN last'.calls :
                  last'.calls[j].api \notin {"SetCommState", "SetCommTimeouts"}
             /\ os'.dcb = os.dcb
             /\ os'.timeouts = os.timeouts]_vars

\* C37 witness: a setter on an Open port has written the control block with
\* a new baud rate, and the DTR control field, which update() does not
\* assign, still holds the device's value.
C37_Witness ==
  /\ Acted("set_baud_rate")
  /\ last.res = Ok
  /\ LastPort.is_open
  /\ last.calls[2] = Call("SetCommState", LastPort.handle, TRUE)
  /\ os.dcb[os.dev[LastPort.handle]].BaudRate = 115200
  /\ os.dcb[os.dev[LastPort.handle]].fDtrControl = PowerOnDCB.fDtrControl

GetterOps == {"baud_rate", "data_bits", "parity", "stop_bits", "flow_control"}

\* C38: the getters baud_rate(), data_bits(), parity(), stop_bits() and
\* flow_control() report the live control block behind the Port's handle,
\* not the stored configuration: on a port that is not open they return an
\* error even though a value is stored; on an Open port (a clone included)
\* whose GetCommState succeeds they return what the device holds, whoever
\* applied it; timeout() and path() return the stored value, make no OS
\* call and never fail.
C38_GettersReadDevice ==
  /\ (last.op \in GetterOps /\ ~LastPort.is_open) => last.res # Ok
  /\ (last.op \in GetterOps /\ LastPort.is_open /\ last.calls[1].ok)
     => LET dcb == os.dcb[os.dev[LastPort.handle]]
            held == CASE last.op = "baud_rate" -> DecodeBaudRate(dcb)
                      [] last.op = "data_bits" -> DecodeDataBits(dcb)
                      [] last.op = "parity" -> DecodeParity(dcb)
                      [] last.op = "stop_bits" -> DecodeStopBits(dcb)
                      [] last.op = "flow_control" -> DecodeFlowControl(dcb) IN
        last.res = held.res /\ last.val = held.val
  /\ last.op = "path"
     => (last.res = Ok /\ last.calls = <<>>
         /\ last.val = LastPort.builder.path)
  /\ last.op = "timeout"
     => (last.res = Ok /\ last.calls = <<>>
         /\ last.val = LastPort.builder.timeout)

\* C39: the device is opened with exclusive access: a handle an operation
\* obtains from CreateFileW is, when the operation returns, the only handle
\* open on its device, so further handles arise only through try_clone();
\* and while another Port (original or clone) holds a handle that is open
\* on a device, open() on a Port that is not open and is bound to that
\* device fails and leaves it not open; in particular open() on an original
\* that was closed while its clone stayed Open.
C39_ExclusiveAccess ==
  [][/\ \A i \in DOMAIN last'.calls :
          (/\ last'.calls[i].api = "CreateFileW"
           /\ last'.calls[i].ok
           /\ last'.calls[i].h \in os'.live)
          => \A x \in os'.live \ {last'.calls[i].h} :
               os'.dev[x] # os'.dev[last'.calls[i].h]
     /\ \A p \in PortIds :
          (/\ last'.op = "open"
           /\ last'.port = p
           /\ ~ports[p].is_open
           /\ \E q \in PortIds \ {p} :
                /\ ports[q].exists
                /\ ports[q].handle \in os.live
                /\ os.dev[ports[q].handle] = PrefixPort(ports[p].builder.path))
          => /\ last'.res = OsErr("PermissionDenied", "CreateFileW")
             /\ ~ports'[p].is_open
             /\ os' = os]_vars

\* C39 witness: the original was cloned and closed, its handle released;
\* open() on it has failed at CreateFileW while the clone is Open on the
\* device.
C39_Witness ==
  /\ Acted("open")
  /\ ops = 4
  /\ cloned
  /\ last.res = OsErr("PermissionDenied", "CreateFileW")
  /\ ~LastPort.is_open
  /\ LastPort.handle = INVALID_HANDLE_VALUE
  /\ \E q \in PortIds \ {last.port} :
       /\ ports[q].exists
       /\ ports[q].is_open
       /\ ports[q].handle \in os.live
       /\ os.dev[ports[q].handle] = PrefixPort(LastPort.builder.path)

====
